---------------------------- MODULE Spec2Model ----------------------------
(* A model of the coinjoin coordination core of joinmarket-clientserver:   *)
(* the Maker (jmclient/maker.py) and the Taker (jmclient/taker.py) role    *)
(* state machines.  Each entry point is one action; the arguments the      *)
(* relay hands in and the answers of the wallet, the blockchain interface  *)
(* and the subclass hooks are drawn from small sets.  A handler leaves the *)
(* role in pc "ret" with its call and its result recorded; Return takes it *)
(* back to "idle", where the next entry point may run (single-threaded     *)
(* event loop: no two entry points of a role overlap).                     *)
EXTENDS Integers, Sequences, FiniteSets, TLC

VARIABLES
    \* ---- Maker (maker.py) ----
    m_pc,            \* "idle" | "ret" | "exited" : position of the Maker's event loop
    m_call,          \* the entry point that ran last, with its arguments
    m_ret,           \* what it returned
    m_log,           \* wallet methods and subclass hooks invoked by that call, in order
    offerlist,       \* Maker.offerlist
    active_orders,   \* Maker.active_orders
    m_aborted,       \* Maker.aborted
    m_signed,        \* the input indices that call handed to wallet.sign_tx
    wallet_synced,   \* jm_single().bc_interface.wallet_synced
    sync_wait_loop,  \* TRUE while the LoopingCall polls try_to_create_my_orders
    \* ---- Taker (taker.py) ----
    taker,           \* the Taker object: one field per attribute
    t_pc,            \* "idle" | "ret" : position of the Taker's event loop
    t_call,          \* the entry point that ran last, with its arguments
    t_ret,           \* what it returned, or the exception it raised
    t_log,           \* callbacks and collaborators invoked by that call, in order
    t_stage,         \* what the relay waits for: "start" (the orderbook), "commit"
                     \* and "retry" (!ioauth), "tx" (!sig), "pushed" and "seen"
                     \* (the notify callbacks); "failed" and "crashed" (nothing);
                     \* "late" (!sig, after !ioauth answers that came late)
    used_commitments,\* the persistent store of used PoDLE commitments
    revealed         \* history: the (utxo, index) of every revelation initialize returned

mvars == <<m_pc, m_call, m_ret, m_log, m_signed, offerlist, active_orders, m_aborted,
           wallet_synced, sync_wait_loop>>

tvars == <<taker, t_pc, t_call, t_ret, t_log, t_stage, used_commitments, revealed>>

vars == <<mvars, tvars>>

-----------------------------------------------------------------------------
(* Python values.  A Python tuple is a TLA+ tuple; True, False and None    *)
(* are written as strings so that tuples of mixed content stay comparable. *)
PyTrue == "True"
PyFalse == "False"
PyNone == "None"

NoCall == [op |-> "none"]
NoRet == <<PyNone>>

Max(a, b) == IF a >= b THEN a ELSE b

RECURSIVE SumSeq(_)
SumSeq(s) == IF s = <<>> THEN 0 ELSE Head(s) + SumSeq(Tail(s))

RECURSIVE SumFun(_)
SumFun(f) ==
    IF DOMAIN f = {} THEN 0
    ELSE LET k == CHOOSE x \in DOMAIN f : TRUE
         IN  f[k] + SumFun([x \in DOMAIN f \ {k} |-> f[x]])

SeqsUpTo(S, n) == UNION {[1..k -> S] : k \in 0..n}

Range(s) == {s[i] : i \in DOMAIN s}

-----------------------------------------------------------------------------
(* Bitcoin data.                                                           *)
Addresses == {"A1", "A2", "A3"}

\* btc.address_to_script: the scriptPubKey an address stands for.
address_to_script(addr) == <<"spk", addr>>

Scripts == {address_to_script(a) : a \in Addresses}

\* Dict helpers: d[k] = v, and del d[k].
Put(d, k, v) == [x \in DOMAIN d \cup {k} |-> IF x = k THEN v ELSE d[x]]
Del(d, k) == [x \in DOMAIN d \ {k} |-> d[x]]
EmptyDict == [x \in {} |-> 0]

\* jmclient.support.calc_cj_fee.  An offer's cjfee is written <<num, den>>:
\* an absolute offer charges num satoshis (den = 1); a relative offer charges
\* the fraction num/den of the coinjoin amount, rounded down to whole satoshis.
calc_cj_fee(ordertype, cjfee, cj_amount) ==
    IF ordertype \in {"absoffer", "swabsoffer"}
    THEN cjfee[1]
    ELSE (cj_amount * cjfee[1]) \div cjfee[2]

\* A transaction as btc.deserialize returns it: ins is the list of outpoints
\* spent, outs the list of (script, value).
Tx(ins, outs) == [kind |-> "tx", ins |-> ins, outs |-> outs]

\* What btc.deserialize cannot parse.
JunkTx == [kind |-> "junk", ins |-> <<>>, outs |-> <<>>]

-----------------------------------------------------------------------------
(*                                 MAKER                                    *)

\* Maker.verify_unsigned_tx, the loop over txd['outs'] from output i on:
\* the first wrong value ends it, else the two counters are compared with 1.
RECURSIVE verify_outs(_, _, _, _, _, _, _, _)
verify_outs(outs, i, cjaddr_script, changeaddr_script, amount, expected_change_value, times_seen_cj_addr, times_seen_change_addr) ==
    IF i > Len(outs)
    THEN IF times_seen_cj_addr # 1 \/ times_seen_change_addr # 1
         THEN <<PyFalse, "cj or change addr not in tx outputs once">>
         ELSE <<PyTrue, PyNone>>
    ELSE LET o == outs[i]
             isCj == (o.script = cjaddr_script)
             isCh == (o.script = changeaddr_script)
         IN  IF isCj /\ o.value # amount
             THEN <<PyFalse, "Wrong cj_amount. I expect">>
             ELSE IF isCh /\ o.value # expected_change_value
             THEN <<PyFalse, "wrong change, i expect">>
             ELSE verify_outs(outs, i + 1, cjaddr_script, changeaddr_script,
                              amount, expected_change_value,
                              times_seen_cj_addr + (IF isCj THEN 1 ELSE 0),
                              times_seen_change_addr + (IF isCh THEN 1 ELSE 0))

\* sum([va['value'] for va in utxos.values()])
TotalIn(utxos) == SumFun([u \in DOMAIN utxos |-> utxos[u].value])

\* expected_change_value of Maker.verify_unsigned_tx
ExpectedChange(offerinfo) ==
    TotalIn(offerinfo.utxos) - offerinfo.amount - offerinfo.offer.txfee
      + calc_cj_fee(offerinfo.offer.ordertype, offerinfo.offer.cjfee,
                    offerinfo.amount)

\* verify_unsigned_tx without the test that the Maker's utxos are inputs.
verify_unsigned_tx_no_utxo_test(txd, offerinfo) ==
    verify_outs(txd.outs, 1, address_to_script(offerinfo.cjaddr),
                address_to_script(offerinfo.changeaddr),
                offerinfo.amount, ExpectedChange(offerinfo), 0, 0)

\* verify_unsigned_tx refusing a transaction that spends anything but the
\* Maker's utxos.
verify_unsigned_tx_only_my_inputs(txd, offerinfo) ==
    IF Range(txd.ins) # DOMAIN offerinfo.utxos
    THEN <<PyFalse, "my utxos are not contained">>
    ELSE verify_unsigned_tx_no_utxo_test(txd, offerinfo)

\* Maker.verify_unsigned_tx(txd, offerinfo)
verify_unsigned_tx(txd, offerinfo) ==
    LET tx_utxo_set == Range(txd.ins)
        my_utxo_set == DOMAIN offerinfo.utxos
    IN  IF ~(my_utxo_set \subseteq tx_utxo_set)
        THEN <<PyFalse, "my utxos are not contained">>
        ELSE verify_outs(txd.outs, 1,
                         address_to_script(offerinfo.cjaddr),
                         address_to_script(offerinfo.changeaddr),
                         offerinfo.amount, ExpectedChange(offerinfo), 0, 0)

\* One index per utxo of the offer-info: the first input spending it.
OurInputs_once_per_utxo(tx, utxos) ==
    {i \in DOMAIN tx.ins :
       /\ tx.ins[i] \in DOMAIN utxos
       /\ \A j \in 1..(i - 1) : tx.ins[j] # tx.ins[i]}

\* our_inputs of Maker.on_tx_received: the indices of the inputs whose
\* outpoint is one of offerinfo's utxos.
OurInputs(tx, utxos) == {i \in DOMAIN tx.ins : tx.ins[i] \in DOMAIN utxos}

\* The signature messages of Maker.on_tx_received, one per index of
\* our_inputs in the order the dict was filled (ascending index).
RECURSIVE SigsFrom(_, _, _)
SigsFrom(tx, ours, i) ==
    IF i > Len(tx.ins) THEN <<>>
    ELSE (IF i \in ours THEN <<[index |-> i, utxo |-> tx.ins[i]]>> ELSE <<>>)
         \o SigsFrom(tx, ours, i + 1)

\* ---- the arguments the relay can hand to the Maker ----
Outpoints == {"u1", "u2", "u3"}

\* The utxo sets oid_to_order can pick from the Maker's wallet.
MakerUtxos1 == [u \in {"u1"} |-> [address |-> "M1", value |-> 2]]
MakerUtxos2 == [u \in {"u1", "u2"} |->
                  IF u = "u1" THEN [address |-> "M1", value |-> 2]
                              ELSE [address |-> "M2", value |-> 1]]
NoUtxos == [u \in {} |-> [address |-> "M1", value |-> 0]]

MakerOffers ==
    {[oid |-> 0, ordertype |-> "absoffer", cjfee |-> <<1, 1>>, txfee |-> 0],
     [oid |-> 1, ordertype |-> "reloffer", cjfee |-> <<1, 2>>, txfee |-> 1]}

\* The offer-info envelope the daemon keeps per active order.
OfferInfos ==
    [utxos : {MakerUtxos1, MakerUtxos2}, cjaddr : {"A1"},
     changeaddr : {"A1", "A2"}, amount : {1, 2}, offer : MakerOffers]

MaxOuts == 3
MaxIns == 2
OutValues == {1, 2}

TxOuts == SeqsUpTo([script : Scripts, value : OutValues], MaxOuts)

\* Input lists are taken in ascending order of outpoint, repeats allowed:
\* the Maker's checks and its choice of inputs to sign go by outpoint only.
OutpointRank(u) == CASE u = "u1" -> 1 [] u = "u2" -> 2 [] OTHER -> 3
TxIns == {s \in SeqsUpTo(Outpoints, MaxIns) :
            \A i \in 1..(Len(s) - 1) :
               OutpointRank(s[i]) <= OutpointRank(s[i + 1])}

TxHexes == {JunkTx} \cup {Tx(i, o) : i \in TxIns, o \in TxOuts}

\* btc.deserialize(txhex): the transaction, or none when parsing raises.
deserialize(txhex) == IF txhex.kind = "tx" THEN txhex ELSE JunkTx

\* on_tx_received signing whatever deserializes, verified or not.
on_tx_received_signs_unverified(txhex, offerinfo) ==
    LET tx == deserialize(txhex)
        our_inputs == OurInputs(tx, offerinfo.utxos)
    IN  IF tx.kind # "tx"
        THEN [ret |-> <<PyFalse, "malformed txhex. ">>, log |-> <<>>,
              signed |-> {}]
        ELSE [ret |-> <<PyTrue, SigsFrom(tx, our_inputs, 1)>>,
              log |-> <<"sign_tx">>, signed |-> our_inputs]

\* Maker.on_tx_received(nick, txhex, offerinfo): the value returned, the
\* wallet methods invoked and the input indices handed to wallet.sign_tx.
on_tx_received(txhex, offerinfo) ==
    LET tx == deserialize(txhex)
        v == verify_unsigned_tx(tx, offerinfo)
        our_inputs == OurInputs(tx, offerinfo.utxos)
    IN  IF tx.kind # "tx"
        THEN [ret |-> <<PyFalse, "malformed txhex. ">>, log |-> <<>>,
              signed |-> {}]
        ELSE IF v[1] # PyTrue
        THEN [ret |-> <<PyFalse, v[2]>>, log |-> <<>>, signed |-> {}]
        ELSE [ret |-> <<PyTrue, SigsFrom(tx, our_inputs, 1)>>,
              log |-> <<"sign_tx">>, signed |-> our_inputs]

\* ---- PoDLE, as the Maker sees it (jmclient.podle) ----
\* POLICY settings read by on_auth_received.
taker_utxo_retries == 3
taker_utxo_age == 5
taker_utxo_amtpercent == 20

MaxPodleIndex == 3
Pubkeys == {"PA", "PB"}

\* P2 = priv * J(index); the commitment is the hash of P2.
PodleP2(P, index) == <<P, index>>
PodleCommit(P2) == <<"H", P2>>

\* A revelation (u, P, P2, s, e): P2 is built on J(index); proof tells whether
\* (s, e) is a valid proof that P and P2 share the discrete log.
Revelations ==
    [kind : {"rev"}, utxo : {"c1"}, P : Pubkeys, index : 0..MaxPodleIndex,
     proof : BOOLEAN]
JunkRevelation == [kind |-> "junk", utxo |-> "c1", P |-> "PA", index |-> 0,
                   proof |-> FALSE]
\* The commitments received: on the last index the Maker admits, and on the
\* first it does not.
Commitments ==
    {PodleCommit(PodleP2("PA", i)) :
       i \in {taker_utxo_retries - 1, taker_utxo_retries}}

\* podle.verify_podle(P, P2, sig, e, commitment, index_range): the
\* commitment is the hash of P2 and the proof verifies for the generator of
\* some index of the range.
verify_podle(cr, commitment, index_range) ==
    /\ commitment = PodleCommit(PodleP2(cr.P, cr.index))
    /\ \E i \in index_range : cr.proof /\ cr.index = i

\* wallet.pubkey_has_script(pubkey, script)
pubkey_has_script(pubkey, script) == script = <<"script_of", pubkey>>

\* int(x / 100.0): Python's int() truncates toward zero.
IntDiv100(x) == IF x >= 0 THEN x \div 100 ELSE -((-x) \div 100)

\* What query_utxo_set([utxo], includeconf=True) can answer for the
\* committed utxo: none, or its value, script and confirmations.
NoneUtxo == [none |-> TRUE, value |-> 0, script |-> <<"script_of", "PA">>,
             confirms |-> 0]
ChainAnswers ==
    {NoneUtxo} \cup
    [none : {FALSE}, value : {19, 20, 29, 30},
     script : {<<"script_of", "PA">>, <<"script_of", "PB">>},
     confirms : {taker_utxo_age - 1, taker_utxo_age}]

AuthAmounts == {100, 150}

\* What the hook oid_to_order(offer, amount) can answer.
OidToOrderAnswers ==
    {[utxos |-> NoUtxos, cj_addr |-> PyNone, change_addr |-> PyNone],
     [utxos |-> MakerUtxos1, cj_addr |-> "A1", change_addr |-> "A2"],
     [utxos |-> MakerUtxos2, cj_addr |-> "A1", change_addr |-> "A2"]}

\* The first key of the utxos dict.
FirstUtxo(utxos) == IF "u1" \in DOMAIN utxos THEN "u1"
                    ELSE CHOOSE u \in DOMAIN utxos : TRUE

\* btc.privtopub(wallet.get_key_from_addr(address))
PubOfAddr(address) == <<"pub", address>>
\* btc.ecdsa_sign(msg, key), and btc.ecdsa_verify(msg, sig, pub)
ecdsa_sign(msg, pub) == [signer |-> pub, msg |-> msg]
ecdsa_verify(msg, sig, pub) == sig.signer = pub /\ sig.msg = msg

\* taker_auth_ok accepting a committed utxo of any age.
taker_auth_ok_any_age(commitment, cr, amount, res) ==
    /\ cr.kind = "rev"
    /\ verify_podle(cr, commitment, 0..(taker_utxo_retries - 1))
    /\ ~res.none
    /\ res.value >= IntDiv100(amount * taker_utxo_amtpercent)
    /\ pubkey_has_script(cr.P, res.script)

\* Maker.on_auth_received, the authorisation of the Taker: the revelation
\* deserializes, the PoDLE verifies, the committed utxo is real, old enough,
\* large enough and corresponds to the pubkey.
taker_auth_ok(commitment, cr, amount, res) ==
    /\ cr.kind = "rev"
    /\ verify_podle(cr, commitment, 0..(taker_utxo_retries - 1))
    /\ ~res.none
    /\ res.confirms >= taker_utxo_age
    /\ res.value >= IntDiv100(amount * taker_utxo_amtpercent)
    /\ pubkey_has_script(cr.P, res.script)

\* The success tuple of on_auth_received.
AuthSuccess(kphex, order) ==
    LET auth_pub == PubOfAddr(order.utxos[FirstUtxo(order.utxos)].address)
    IN  <<PyTrue, order.utxos, auth_pub, order.cj_addr, order.change_addr,
          ecdsa_sign(kphex, auth_pub)>>

\* on_auth_received updating the wallet's cache index before it looks at
\* the utxos oid_to_order found.
on_auth_received_updates_early(commitment, cr, amount, kphex, res, order) ==
    IF ~taker_auth_ok(commitment, cr, amount, res)
    THEN [ret |-> <<PyFalse>>, log |-> <<>>]
    ELSE IF DOMAIN order.utxos = {}
    THEN [ret |-> <<PyFalse>>,
          log |-> <<"oid_to_order", "update_cache_index">>]
    ELSE [ret |-> AuthSuccess(kphex, order),
          log |-> <<"oid_to_order", "update_cache_index",
                    "get_key_from_addr">>]

\* on_auth_received looking for the utxos of the order before it has
\* checked the Taker's authorisation.
on_auth_received_selects_first(commitment, cr, amount, kphex, res, order) ==
    IF ~taker_auth_ok(commitment, cr, amount, res)
    THEN [ret |-> <<PyFalse>>, log |-> <<"oid_to_order">>]
    ELSE IF DOMAIN order.utxos = {}
    THEN [ret |-> <<PyFalse>>, log |-> <<"oid_to_order">>]
    ELSE [ret |-> AuthSuccess(kphex, order),
          log |-> <<"oid_to_order", "update_cache_index",
                    "get_key_from_addr">>]

\* Maker.on_auth_received(nick, offer, commitment, cr, amount, kphex), with
\* res the blockchain's answer for the committed utxo and order the answer
\* of oid_to_order: the value returned and the hooks invoked, in order.
on_auth_received(commitment, cr, amount, kphex, res, order) ==
    IF ~taker_auth_ok(commitment, cr, amount, res)
    THEN [ret |-> <<PyFalse>>, log |-> <<>>]
    ELSE IF DOMAIN order.utxos = {}
    THEN [ret |-> <<PyFalse>>, log |-> <<"oid_to_order">>]
    ELSE [ret |-> AuthSuccess(kphex, order),
          log |-> <<"oid_to_order", "update_cache_index",
                    "get_key_from_addr">>]

\* What the hook create_my_orders can answer.
CreatedOffers ==
    {<<>>, <<[oid |-> 0, ordertype |-> "absoffer", cjfee |-> <<1, 1>>,
             txfee |-> 0]>>}

\* ---- the Maker's actions ----
MakerInit ==
    /\ m_pc = "idle"
    /\ m_call = NoCall
    /\ m_ret = NoRet
    /\ m_log = <<>>
    /\ m_signed = {}
    /\ offerlist = [isNone |-> TRUE, offers |-> <<>>]
    /\ active_orders = {}
    /\ m_aborted = FALSE
    /\ wallet_synced = FALSE
    /\ sync_wait_loop = TRUE

\* The blockchain interface finishes syncing the wallet.
WalletSyncs ==
    /\ ~wallet_synced
    /\ wallet_synced' = TRUE
    /\ UNCHANGED <<m_pc, m_call, m_ret, m_log, m_signed, offerlist,
                   active_orders, m_aborted, sync_wait_loop>>
    /\ UNCHANGED tvars

\* A poll that asks the hook for offers whatever the wallet's state, and goes
\* on polling.
try_to_create_my_orders_unsynced ==
    /\ m_pc = "idle"
    /\ sync_wait_loop
    /\ \E created \in CreatedOffers :
         /\ offerlist' = [isNone |-> FALSE, offers |-> created]
         /\ m_call' = [op |-> "try_to_create_my_orders", created |-> created]
         /\ m_log' = <<"create_my_orders">>
         /\ m_pc' = IF created = <<>> THEN "exited" ELSE "idle"
         /\ UNCHANGED <<m_ret, m_signed, active_orders, m_aborted,
                        wallet_synced, sync_wait_loop>>
    /\ UNCHANGED tvars

\* Maker.try_to_create_my_orders, run by sync_wait_loop every 2 s; created
\* is what the hook create_my_orders answers.
try_to_create_my_orders ==
    /\ m_pc = "idle"
    /\ sync_wait_loop
    /\ \E created \in CreatedOffers :
         IF ~wallet_synced
         THEN UNCHANGED mvars
         ELSE /\ offerlist' = [isNone |-> FALSE, offers |-> created]
              /\ sync_wait_loop' = FALSE
              /\ m_call' = [op |-> "try_to_create_my_orders",
                            created |-> created]
              /\ m_log' = <<"create_my_orders">>
              /\ m_pc' = IF created = <<>> THEN "exited" ELSE "idle"
              /\ UNCHANGED <<m_ret, m_signed, active_orders,
                             m_aborted, wallet_synced>>
    /\ UNCHANGED tvars

\* The relay hands the Maker requests once it has announced offers.
MakerReady == m_pc = "idle" /\ ~offerlist.isNone

\* The daemon hands over an !auth message.
OnAuthReceivedFrom(commitments, crs, amounts, chain, orders) ==
    /\ MakerReady
    /\ \E commitment \in commitments, cr \in crs, amount \in amounts,
          res \in chain, order \in orders :
         LET r == on_auth_received(commitment, cr, amount, "kp", res, order)
         IN  /\ m_call' = [op |-> "on_auth_received", commitment |-> commitment,
                           cr |-> cr, amount |-> amount, res |-> res,
                           order |-> order]
             /\ m_ret' = r.ret
             /\ m_log' = r.log
    /\ m_pc' = "ret"
    /\ UNCHANGED <<m_signed, offerlist, active_orders, m_aborted,
                   wallet_synced, sync_wait_loop>>
    /\ UNCHANGED tvars

MakerOnAuthReceived ==
    OnAuthReceivedFrom(Commitments, Revelations \cup {JunkRevelation},
                       AuthAmounts, ChainAnswers, OidToOrderAnswers)

\* The daemon hands over a !tx message, with the offer-info it keeps.
OnTxReceivedFrom(txhexes, offerinfos) ==
    /\ MakerReady
    /\ \E txhex \in txhexes, offerinfo \in offerinfos :
         LET r == on_tx_received(txhex, offerinfo)
         IN  /\ m_call' = [op |-> "on_tx_received", txhex |-> txhex,
                           offerinfo |-> offerinfo]
             /\ m_ret' = r.ret
             /\ m_log' = r.log
             /\ m_signed' = r.signed
    /\ m_pc' = "ret"
    /\ UNCHANGED <<offerlist, active_orders, m_aborted, wallet_synced,
                   sync_wait_loop>>
    /\ UNCHANGED tvars

MakerOnTxReceived == OnTxReceivedFrom(TxHexes, OfferInfos)

\* The handler's result has gone back to the relay.
MakerReturn ==
    /\ m_pc = "ret"
    /\ m_pc' = "idle"
    /\ m_call' = NoCall
    /\ m_ret' = NoRet
    /\ m_log' = <<>>
    /\ m_signed' = {}
    /\ UNCHANGED <<offerlist, active_orders, m_aborted, wallet_synced,
                   sync_wait_loop>>
    /\ UNCHANGED tvars

\* The operator sets Maker.aborted.
MakerAbort ==
    /\ m_pc = "idle"
    /\ ~m_aborted
    /\ m_aborted' = TRUE
    /\ UNCHANGED <<m_pc, m_call, m_ret, m_log, m_signed, offerlist,
                   active_orders, wallet_synced, sync_wait_loop>>
    /\ UNCHANGED tvars

MakerNext ==
    \/ WalletSyncs
    \/ try_to_create_my_orders
    \/ MakerOnAuthReceived
    \/ MakerOnTxReceived
    \/ MakerReturn
    \/ MakerAbort

-----------------------------------------------------------------------------
(*                        CLAIMS ABOUT THE MAKER                            *)

\* The call of on_tx_received that has just returned, if any.
TxCallDone == m_pc = "ret" /\ m_call.op = "on_tx_received"
TxCallParsed == TxCallDone /\ m_call.txhex.kind = "tx"
\* on_tx_received returns (True, sigs) exactly when verify_unsigned_tx
\* returned (True, None).
TxAccepted == TxCallParsed /\ m_ret[1] = PyTrue

\* The outputs of tx paying script.
OutsTo(tx, script) == {i \in DOMAIN tx.outs : tx.outs[i].script = script}
PaidTo(tx, scripts) ==
    SumSeq([i \in DOMAIN tx.outs |->
              IF tx.outs[i].script \in scripts THEN tx.outs[i].value ELSE 0])

\* What the Maker is owed as change, from the offer-info envelope.
ChangeDue(oi) ==
    TotalIn(oi.utxos) - oi.amount - oi.offer.txfee
      + calc_cj_fee(oi.offer.ordertype, oi.offer.cjfee, oi.amount)

\* C1: whenever verify_unsigned_tx accepts txd for offerinfo, every utxo of
\* offerinfo is an input of txd, exactly one output pays the script of
\* cjaddr and its value is amount, and exactly one output pays the script of
\* changeaddr and its value is sum(utxos) - amount - txfee + real_cj_fee.
C1_AcceptedTxPaysMaker ==
    TxAccepted =>
      LET tx == m_call.txhex
          oi == m_call.offerinfo
          cj == OutsTo(tx, address_to_script(oi.cjaddr))
          ch == OutsTo(tx, address_to_script(oi.changeaddr))
      IN  /\ \A u \in DOMAIN oi.utxos : \E i \in DOMAIN tx.ins : tx.ins[i] = u
          /\ Cardinality(cj) = 1
          /\ \A i \in cj : tx.outs[i].value = oi.amount
          /\ Cardinality(ch) = 1
          /\ \A i \in ch : tx.outs[i].value = ChangeDue(oi)

\* A transaction with a foreign input and a foreign output, accepted for an
\* offer with two distinct addresses.
C1_Witness ==
    /\ TxAccepted
    /\ m_call.offerinfo.cjaddr # m_call.offerinfo.changeaddr
    /\ "u3" \in Range(m_call.txhex.ins)
    /\ Len(m_call.txhex.outs) = 3

\* C2: for every accepted transaction and every offerinfo, with cjaddr and
\* changeaddr the same address or not, the outputs paying cjaddr or
\* changeaddr add up to sum(utxos) - txfee + real_cj_fee.
C2_MakerGetsBackItsCoins ==
    TxAccepted =>
      LET tx == m_call.txhex
          oi == m_call.offerinfo
      IN  PaidTo(tx, {address_to_script(oi.cjaddr),
                      address_to_script(oi.changeaddr)})
            = TotalIn(oi.utxos) - oi.offer.txfee
                + calc_cj_fee(oi.offer.ordertype, oi.offer.cjfee, oi.amount)

\* on_tx_received, as the claim C3 describes it in general: (True, sigs)
\* exactly for a transaction that deserializes and passes verify_unsigned_tx,
\* else (False, reason) with nothing signed.
TxResultAsClaimed ==
    TxCallDone =>
      LET passes == /\ m_call.txhex.kind = "tx"
                    /\ verify_unsigned_tx(m_call.txhex, m_call.offerinfo)
                         = <<PyTrue, PyNone>>
      IN  /\ (m_ret[1] = PyTrue) <=> passes
          /\ passes => /\ Len(m_ret) = 2
                       /\ m_log = <<"sign_tx">>
                       /\ Len(m_ret[2]) > 0
          /\ ~passes => /\ Len(m_ret) = 2
                        /\ m_ret[1] = PyFalse
                        /\ m_ret[2] \in {"malformed txhex. ",
                                         "my utxos are not contained",
                                         "Wrong cj_amount. I expect",
                                         "wrong change, i expect",
                                         "cj or change addr not in tx outputs once"}
                        /\ m_log = <<>>
                        /\ m_signed = {}

\* on_tx_received changes neither active_orders nor offerlist.
TxCallKeepsState ==
    (m_pc = "idle" /\ m_pc' = "ret" /\ m_call'.op = "on_tx_received")
      => (active_orders' = active_orders /\ offerlist' = offerlist)

\* The outputs of the call's transaction paying cjaddr one satoshi short.
ShortCjOuts ==
    {i \in DOMAIN m_call.txhex.outs :
       /\ m_call.txhex.outs[i].script
            = address_to_script(m_call.offerinfo.cjaddr)
       /\ m_call.txhex.outs[i].value = m_call.offerinfo.amount - 1}

\* C3 as stated: on_tx_received answers as described above, and every
\* transaction with a cj output of amount - 1 is rejected with the reason
\* 'Wrong cj_amount'.
C3_AsStated ==
    /\ [](/\ TxResultAsClaimed
          /\ (TxCallParsed /\ ShortCjOuts # {})
               => m_ret = <<PyFalse, "Wrong cj_amount. I expect">>)
    /\ [][TxCallKeepsState]_vars

\* The checks of verify_unsigned_tx that come before it looks at output i:
\* the Maker's utxos are inputs, and no earlier output pays cjaddr or
\* changeaddr a wrong value.
ChecksBeforeOutputPass(i) ==
    LET tx == m_call.txhex
        oi == m_call.offerinfo
    IN  /\ DOMAIN oi.utxos \subseteq Range(tx.ins)
        /\ \A j \in 1..(i - 1) :
             /\ tx.outs[j].script = address_to_script(oi.cjaddr)
                  => tx.outs[j].value = oi.amount
             /\ tx.outs[j].script = address_to_script(oi.changeaddr)
                  => tx.outs[j].value = ChangeDue(oi)

\* C3, amended: on_tx_received returns (True, sigs) exactly for a
\* transaction that deserializes and passes verify_unsigned_tx; otherwise it
\* returns (False, reason), signs nothing and leaves active_orders and
\* offerlist alone.  A transaction with a cj output of amount - 1 is always
\* rejected; the reason is 'Wrong cj_amount' when the transaction holds the
\* Maker's utxos and no output before that one pays cjaddr or changeaddr a
\* wrong value.
C3_RejectsUnverifiedTx ==
    /\ [](/\ TxResultAsClaimed
          /\ (TxCallParsed /\ ShortCjOuts # {}) =>
               /\ m_ret[1] = PyFalse
               /\ (\E i \in ShortCjOuts : ChecksBeforeOutputPass(i))
                    => m_ret = <<PyFalse, "Wrong cj_amount. I expect">>)
    /\ [][TxCallKeepsState]_vars

\* The scenario: the transaction the Maker expects, but for a cj output of
\* amount - 1.
C3_Witness ==
    /\ TxCallParsed
    /\ m_ret = <<PyFalse, "Wrong cj_amount. I expect">>
    /\ DOMAIN m_call.offerinfo.utxos \subseteq Range(m_call.txhex.ins)
    /\ Len(m_call.txhex.outs) = 2
    /\ ShortCjOuts = {2}
    /\ m_call.txhex.outs[1] =
         [script |-> address_to_script(m_call.offerinfo.changeaddr),
          value |-> ChangeDue(m_call.offerinfo)]

AuthCallDone == m_pc = "ret" /\ m_call.op = "on_auth_received"
AuthSucceeded == AuthCallDone /\ m_ret[1] = PyTrue

\* C4: on_auth_received returns the success tuple only if the revelation
\* deserializes, the PoDLE proof verifies against the commitment for some
\* index below taker_utxo_retries, the committed utxo exists with at least
\* taker_utxo_age confirmations and a value of at least
\* floor(amount * taker_utxo_amtpercent / 100), the committed pubkey matches
\* the utxo's script, and oid_to_order returned utxos.
C4_AuthSuccessOnlyIfChecked ==
    AuthSucceeded =>
      LET cr == m_call.cr
          res == m_call.res
      IN  /\ Len(m_ret) = 6
          /\ cr.kind = "rev"
          /\ m_call.commitment = PodleCommit(PodleP2(cr.P, cr.index))
          /\ cr.proof
          /\ cr.index \in 0..(taker_utxo_retries - 1)
          /\ ~res.none
          /\ res.confirms >= taker_utxo_age
          /\ res.value >= (m_call.amount * taker_utxo_amtpercent) \div 100
          /\ res.script = <<"script_of", cr.P>>
          /\ DOMAIN m_call.order.utxos # {}
          /\ m_ret[2] = m_call.order.utxos

\* A success on the last admissible index, with a utxo of exactly the
\* required age and value.
C4_Witness ==
    /\ AuthSucceeded
    /\ m_call.cr.index = taker_utxo_retries - 1
    /\ m_call.res.confirms = taker_utxo_age
    /\ m_call.res.value = (m_call.amount * taker_utxo_amtpercent) \div 100

\* on_auth_received changes no state of the Maker.
AuthCallKeepsState ==
    (m_pc = "idle" /\ m_pc' = "ret" /\ m_call'.op = "on_auth_received")
      => /\ active_orders' = active_orders
         /\ offerlist' = offerlist
         /\ m_signed' = m_signed

\* C5: every failing on_auth_received returns exactly (False,), records no
\* authorization and does not invoke wallet.update_cache_index.
C5_AuthFailureLeavesNoTrace ==
    /\ []((AuthCallDone /\ ~AuthSucceeded) =>
            /\ m_ret = <<PyFalse>>
            /\ \A i \in DOMAIN m_log : m_log[i] # "update_cache_index")
    /\ [][AuthCallKeepsState]_vars

\* The latest failure: every check on the Taker passed, but oid_to_order
\* found no utxos.
C5_Witness ==
    /\ AuthCallDone
    /\ m_ret = <<PyFalse>>
    /\ taker_auth_ok(m_call.commitment, m_call.cr, m_call.amount, m_call.res)
    /\ DOMAIN m_call.order.utxos = {}

-----------------------------------------------------------------------------
(*                                 TAKER                                    *)

\* ---- settings (jm_single()) ----
minimum_makers == 2
mincjamount == 100000
DUST_THRESHOLD == 2730
BITCOIN_DUST_THRESHOLD == 546
txfee_default == 5000

\* ---- the market ----
Nicks == {"J1", "J2", "J3"}
NickOrder == <<"J1", "J2", "J3">>

\* The offer each maker has in the pit.
OfferOf(nick) ==
    [counterparty |-> nick, oid |-> 0,
     ordertype |-> IF nick = "J3" THEN "swreloffer" ELSE "swabsoffer",
     minsize |-> 50000, maxsize |-> 500000, txfee |-> 1000,
     cjfee |-> IF nick = "J3" THEN <<1, 100>> ELSE <<1000, 1>>]

\* An orderbook is the list of the offers in the pit, here by counterparty.
Orderbooks == {Nicks, {"J1", "J2"}}

AllowedTypes == {"swreloffer", "swabsoffer"}

\* jmclient.support.choose_orders: the offers of ignored makers, of a type
\* not allowed or of a size range not holding cj_amount are dropped, and the
\* chooser picks n of the rest; None when fewer than n are left.  The
\* results it can give, each the set of counterparties chosen.
ChooseOrders(offers, cj_amount, n, ignored) ==
    LET eligible == {k \in offers :
                       /\ k \notin ignored
                       /\ OfferOf(k).ordertype \in AllowedTypes
                       /\ OfferOf(k).minsize <= cj_amount
                       /\ cj_amount <= OfferOf(k).maxsize}
    IN  {c \in SUBSET eligible : Cardinality(c) = n}

\* The orderbook dict built from the chosen counterparties.
OrderDict(chosen) == [k \in chosen |-> OfferOf(k)]

\* sum of calc_cj_fee over the chosen offers.
TotalCjFee(chosen, cj_amount) ==
    SumFun([k \in chosen |->
              calc_cj_fee(OfferOf(k).ordertype, OfferOf(k).cjfee, cj_amount)])

\* jmclient.support.choose_sweep_orders: the largest cj_amount that the
\* inputs pay for together with the miner fee and the chosen makers' fees.
SweepFits(chosen, c, avail) == c + TotalCjFee(chosen, c) <= avail
SweepAmount(chosen, avail) ==
    LET abs == {k \in chosen : OfferOf(k).ordertype = "swabsoffer"}
        guess == ((avail - TotalCjFee(abs, 0)) * 100)
                   \div (100 + Cardinality(chosen \ abs))
        cands == {c \in (guess - 4)..(guess + 4) :
                    SweepFits(chosen, c, avail)
                    /\ ~SweepFits(chosen, c + 1, avail)}
    IN  IF cands = {} THEN 0 ELSE CHOOSE c \in cands : TRUE

\* ---- the Taker's wallet and the chain ----
TakerWallet ==
    [u \in {"T1", "T2"} |->
       IF u = "T1" THEN [address |-> "TA1", value |-> 200000]
                   ELSE [address |-> "TA2", value |-> 150000]]

\* The maker utxos the chain knows: per maker one large enough for the
\* coinjoin and one leaving sub-dust change; any other outpoint is unknown
\* to the chain (unconfirmed or spent).
MakerKey(nick) == <<"K", nick>>
MakerOutpoints ==
    [k \in Nicks |->
       CASE k = "J1" -> [big |-> "J1:big", small |-> "J1:small", gone |-> "J1:gone"]
         [] k = "J2" -> [big |-> "J2:big", small |-> "J2:small", gone |-> "J2:gone"]
         [] OTHER -> [big |-> "J3:big", small |-> "J3:small", gone |-> "J3:gone"]]
MakerChain ==
    [u \in {MakerOutpoints[k].big : k \in Nicks}
            \cup {MakerOutpoints[k].small : k \in Nicks} |->
       LET k == CHOOSE n \in Nicks : u \in {MakerOutpoints[n].big,
                                            MakerOutpoints[n].small}
       IN  [none |-> FALSE,
            value |-> IF u = MakerOutpoints[k].big THEN 150000 ELSE 101000,
            script |-> <<"script_of", MakerKey(k)>>,
            \* btc.is_segwit_native_script(script): J3 spends p2wpkh
            native |-> k = "J3"]]

\* wallet.select_utxos(mixdepth, amount): the selections it can return
\* (none when the wallet cannot pay amount, and select_utxos raises).
SelectUtxos(amount) ==
    {sel \in SUBSET (DOMAIN TakerWallet) :
       sel # {} /\ SumFun([u \in sel |-> TakerWallet[u].value]) >= amount}

\* ---- PoDLE, as the Taker uses it (jmclient.podle) ----
\* The utxos of the external commitments file.
ExternalCommitments == {"X1"}
\* What query_utxo_set(utxos, includeconf=True) can answer for the Taker's
\* utxos and for the external ones: all of them settled, all of them fresh
\* (too few confirmations), only the Taker's or only the external ones fresh.
ChainViews == {"settled", "fresh", "ownfresh", "extfresh"}
Confirms(view, u) ==
    IF \/ view = "fresh"
       \/ view = "ownfresh" /\ u \notin ExternalCommitments
       \/ view = "extfresh" /\ u \in ExternalCommitments
    THEN 2 ELSE 9
CommitUtxoInfo(view, u) ==
    CASE u = "T1" -> [value |-> 200000, confirms |-> Confirms(view, u)]
      [] u = "T2" -> [value |-> 150000, confirms |-> Confirms(view, u)]
      [] OTHER -> [value |-> 300000, confirms |-> Confirms(view, u)]

UtxoOrder == <<"T1", "T2", "X1">>

\* filter_by_coin_age_amt of make_commitment, on a set of utxos.
ValidForCommit(view, utxos, age, amt) ==
    {u \in utxos : CommitUtxoInfo(view, u).confirms >= age
                   /\ CommitUtxoInfo(view, u).value >= amt}
TooNew(view, utxos, age) ==
    {u \in utxos : CommitUtxoInfo(view, u).confirms < age}

\* The first index below tries whose commitment for utxo u is unused, or
\* tries when all are used.
RECURSIVE FirstUnusedIndex(_, _, _, _)
FirstUnusedIndex(u, i, tries, used) ==
    IF i >= tries \/ <<u, i>> \notin used THEN i
    ELSE FirstUnusedIndex(u, i + 1, tries, used)

\* podle.generate_podle(priv_utxo_pairs, tries, allow_external): the utxos
\* are tried in order, each at its first unused index, the own utxos before
\* the external ones; the commitment handed out (<<utxo, index>>, or
\* <<PyNone, 0>>) is recorded as used.
RECURSIVE GenerateFrom(_, _, _, _)
GenerateFrom(order, utxos, tries, used) ==
    IF order = <<>> THEN <<PyNone, 0>>
    ELSE LET u == Head(order)
             i == FirstUnusedIndex(u, 0, tries, used)
         IN  IF u \in utxos /\ i < tries THEN <<u, i>>
             ELSE GenerateFrom(Tail(order), utxos, tries, used)

\* The commitment handed out when the own utxos gave own.
PodleFrom(own, external, tries, used) ==
    IF own[1] # PyNone THEN own
    ELSE GenerateFrom(UtxoOrder, external, tries, used)

\* The commitment handed out, recorded in the store of used commitments.
Recorded(podle, used) ==
    [podle |-> podle,
     used |-> IF podle[1] # PyNone THEN used \cup {podle} ELSE used]

\* generate_podle that hands out a commitment without recording it as used.
generate_podle_unrecorded(utxos, tries, external, used) ==
    [podle |-> PodleFrom(GenerateFrom(UtxoOrder, utxos, tries, used),
                         external, tries, used),
     used |-> used]

generate_podle(utxos, tries, external, used) ==
    Recorded(PodleFrom(GenerateFrom(UtxoOrder, utxos, tries, used),
                       external, tries, used),
             used)

\* amt of make_commitment, lines 698-700.
CommitAmt(t) == IntDiv100(t.cjamount * taker_utxo_amtpercent)

\* The result of make_commitment when round g decided and the utxos of
\* checked were the ones it could draw on.
RoundResult(g, view, checked) ==
    [podle |-> g.podle, used |-> g.used,
     to |-> TooNew(view, checked, taker_utxo_age)]

\* make_commitment from line 709 on, first being the result of the first
\* round: the second round tries the whole wallet and the external
\* commitments.
SecondRound(t, first, view) ==
    IF first.podle[1] # PyNone
    THEN RoundResult(first, view, DOMAIN t.input_utxos)
    ELSE RoundResult(
           generate_podle(
             ValidForCommit(view, DOMAIN TakerWallet, taker_utxo_age,
                            CommitAmt(t)),
             taker_utxo_retries,
             ValidForCommit(view, ExternalCommitments, taker_utxo_age,
                            CommitAmt(t)),
             first.used),
           view, DOMAIN TakerWallet)

\* Taker.make_commitment: <<utxo, index>> of the commitment generated (or
\* <<PyNone, 0>>), the utxos found too new, and the store of used
\* commitments afterwards.
make_commitment(t, used, view) ==
    SecondRound(t, generate_podle(
                     ValidForCommit(view, DOMAIN t.input_utxos, taker_utxo_age,
                                    CommitAmt(t)),
                     taker_utxo_retries, {}, used),
                view)

\* ---- the schedule ----
IntAmount(v) == [float |-> FALSE, v |-> v, num |-> 0, den |-> 1]
FloatAmount(num, den) == [float |-> TRUE, v |-> 0, num |-> num, den |-> den]

Schedule ==
    <<[mixdepth |-> 0, cjamount |-> IntAmount(100000), n_counterparties |-> 3,
       destaddr |-> "T9", waittime |-> 10],
      [mixdepth |-> 0, cjamount |-> IntAmount(100000), n_counterparties |-> 2,
       destaddr |-> "INTERNAL", waittime |-> 20]>>

NoTx == [kind |-> "none", ins |-> <<>>, outs |-> <<>>]

\* Taker.__init__
NewTaker ==
    [aborted |-> FALSE,
     schedule |-> Schedule,
     ignored_makers |-> {},
     honest_makers |-> {},
     honest_only |-> FALSE,
     nonrespondants |-> {},
     waiting_for_conf |-> FALSE,
     txid |-> PyNone,
     schedule_index |-> -1,
     utxos |-> EmptyDict,
     \* attributes that exist only once initialize or receive_utxos set them
     attrs |-> {},
     mixdepth |-> 0, cjamount |-> 0, mixdepthbal |-> 0,
     n_counterparties |-> 0, my_cj_addr |-> PyNone,
     outputs |-> <<>>, cjfee_total |-> 0, maker_txfee_contributions |-> 0,
     latest_tx |-> NoTx,
     orderbook |-> EmptyDict, orderbook_is |-> "unset", total_cj_fee |-> 0,
     my_change_addr |-> PyNone, total_txfee |-> 0,
     input_utxos |-> EmptyDict, maker_utxo_data |-> EmptyDict]

\* The members of set in the order of the list order.
RECURSIVE InOrder(_, _)
InOrder(order, set) ==
    IF order = <<>> THEN <<>>
    ELSE (IF Head(order) \in set THEN <<Head(order)>> ELSE <<>>)
         \o InOrder(Tail(order), set)

\* The first n members of list.
FirstN(list, n) == [i \in 1..(IF n < Len(list) THEN n ELSE Len(list)) |-> list[i]]

\* The order chooser: of the eligible offers it takes the n it ranks first;
\* rank is the order of its (weighted random) preference.
FirstEligible(eligible, n, rank) ==
    IF Cardinality(eligible) < n THEN {}
    ELSE Range(FirstN(InOrder(rank, eligible), n))

ChooserPicks(offers, cj_amount, n, ignored, rank) ==
    FirstEligible(UNION ChooseOrders(offers, cj_amount, 1, ignored), n, rank)

ChooserRanks == {<<"J1", "J2", "J3">>, <<"J2", "J3", "J1">>, <<"J3", "J1", "J2">>}

\* What a handler leaves behind: the Taker object, the value returned (or
\* the exception raised), the callbacks invoked and the commitment store.
Outcome(t, ret, log, used) == [t |-> t, ret |-> ret, log |-> log, used |-> used]
Raised(exception) == <<"raise", exception>>

\* Taker.initialize, lines 166-181: the coinjoin amount of schedule entry
\* si, a fraction of the mixdepth balance when it is a float.
EntryAmount(si, mixdepthbal) ==
    IF ~si.cjamount.float THEN si.cjamount.v
    ELSE Max((si.cjamount.num * mixdepthbal) \div si.cjamount.den, mincjamount)

\* Taker.initialize, lines 169-175: the mixdepth balance after entry si was
\* read.  si[0] != self.schedule[self.schedule_index - 1] compares the
\* mixdepth with a whole schedule entry: the two always differ.
EntryBalance(t, si, idx, bal) ==
    IF si.cjamount.float /\ (idx = 0 \/ TRUE) THEN bal ELSE t.mixdepthbal

\* The settings of schedule entry idx read without the reset of outputs,
\* fees and transaction of lines 192-197.
ApplyScheduleEntry_no_reset(t, idx, bal) ==
    [t EXCEPT !.mixdepth = t.schedule[idx + 1].mixdepth,
              !.mixdepthbal = EntryBalance(t, t.schedule[idx + 1], idx, bal),
              !.cjamount = EntryAmount(t.schedule[idx + 1],
                             EntryBalance(t, t.schedule[idx + 1], idx, bal)),
              !.n_counterparties = t.schedule[idx + 1].n_counterparties,
              !.my_cj_addr = IF t.schedule[idx + 1].destaddr = "INTERNAL"
                             THEN "TI" ELSE t.schedule[idx + 1].destaddr,
              !.attrs = @ \cup {"entry"}]

\* Taker.initialize, lines 163-197: the settings of schedule entry idx are
\* read and the per-transaction attributes are reset.  bal is the answer of
\* wallet.get_balance_by_mixdepth()[mixdepth].
ApplyScheduleEntry(t, idx, bal) ==
    [t EXCEPT !.mixdepth = t.schedule[idx + 1].mixdepth,
              !.mixdepthbal = EntryBalance(t, t.schedule[idx + 1], idx, bal),
              !.cjamount = EntryAmount(t.schedule[idx + 1],
                             EntryBalance(t, t.schedule[idx + 1], idx, bal)),
              !.n_counterparties = t.schedule[idx + 1].n_counterparties,
              !.my_cj_addr = IF t.schedule[idx + 1].destaddr = "INTERNAL"
                             THEN "TI" ELSE t.schedule[idx + 1].destaddr,
              !.outputs = <<>>,
              !.cjfee_total = 0,
              !.maker_txfee_contributions = 0,
              !.latest_tx = NoTx,
              !.txid = PyNone,
              !.attrs = @ \cup {"entry"}]

\* The result of a step of initialize: the Taker, whether the step
\* returned True, and the callbacks it invoked.
Step(t, ok, log) == [t |-> t, ok |-> ok, log |-> log]

\* filter_orderbook, lines 244-265, chosen being the answer of choose_orders
\* ({} for None) and accepted the answer of filter_orders_callback.
FilterChosen(t, chosen, accepted) ==
    IF chosen = {}
    THEN Step([t EXCEPT !.orderbook = EmptyDict, !.orderbook_is = "None",
                        !.total_cj_fee = 0],
              FALSE, <<>>)
    ELSE Step([t EXCEPT !.orderbook = OrderDict(chosen),
                        !.orderbook_is = "dict",
                        !.total_cj_fee = TotalCjFee(chosen, t.cjamount)],
              accepted = PyTrue, <<"filter_orders_callback">>)

\* Taker.filter_orderbook(orderbook, sweep), orderbook being the honest
\* makers' offers when honest_only is set.
FilterOffers(t, offers, sweep, rank, accepted) ==
    IF sweep
    THEN Step([t EXCEPT !.orderbook = OrderDict(offers),
                        !.orderbook_is = "list"],
              TRUE, <<>>)
    ELSE FilterChosen(t, ChooserPicks(offers, t.cjamount, t.n_counterparties,
                                      t.ignored_makers, rank),
                      accepted)

\* filter_orderbook applying the honesty filter to the offers it chooses
\* from at once, and not to those whose choice is deferred.
filter_orderbook_sweeps_all(t, orderbook, sweep, rank, accepted) ==
    FilterOffers(t,
                 IF t.honest_only /\ ~sweep THEN orderbook \cap t.honest_makers
                 ELSE orderbook,
                 sweep, rank, accepted)

filter_orderbook(t, orderbook, sweep, rank, accepted) ==
    FilterOffers(t,
                 IF t.honest_only THEN orderbook \cap t.honest_makers
                 ELSE orderbook,
                 sweep, rank, accepted)

\* prepare_my_bitcoin_data, lines 275-295 (not a sweep): sel is the
\* selection wallet.select_utxos returns, {} when it raises.
InitialTxFee(t) == 2 * txfee_default * t.n_counterparties
PrepareSend(t, sel, addr_ok) ==
    IF ~addr_ok
    THEN Step(t, FALSE, <<"ABORT:Failed to get a change address">>)
    ELSE IF sel \notin SelectUtxos(t.cjamount + t.total_cj_fee + InitialTxFee(t))
    THEN Step([t EXCEPT !.my_change_addr = "TC",
                        !.total_txfee = InitialTxFee(t)],
              FALSE, <<"ABORT:Unable to select sufficient coins">>)
    ELSE Step([t EXCEPT !.my_change_addr = "TC",
                        !.total_txfee = InitialTxFee(t),
                        !.input_utxos = [u \in sel |-> TakerWallet[u]],
                        !.attrs = @ \cup {"input_utxos"},
                        !.utxos = [k \in {PyNone} |-> InOrder(UtxoOrder, sel)]],
              TRUE, <<>>)

\* jmclient.support.choose_sweep_orders: the n offers the chooser ranks
\* first and the coinjoin amount they leave, or {} when there are too few
\* offers or the amount is outside an offer's size range.
SweepPicks(t, rank) ==
    FirstEligible({k \in DOMAIN t.orderbook :
                     k \notin t.ignored_makers
                     /\ t.orderbook[k].ordertype \in AllowedTypes},
                  t.n_counterparties, rank)
WalletTotal == SumFun([u \in DOMAIN TakerWallet |-> TakerWallet[u].value])
SweepFitsOffers(chosen, amount) ==
    \A k \in chosen : OfferOf(k).minsize <= amount /\ amount <= OfferOf(k).maxsize

\* prepare_my_bitcoin_data, lines 315-334 (a sweep), chosen and amount
\* being the answer of choose_sweep_orders.
PrepareSweepAt(t, chosen, amount, accepted) ==
    IF chosen = {} \/ ~SweepFitsOffers(chosen, amount)
    THEN Step([t EXCEPT !.orderbook = EmptyDict, !.orderbook_is = "None",
                        !.cjamount = 0, !.total_cj_fee = 0],
              FALSE, <<"ABORT:Could not find orders to complete transaction">>)
    \* if not self.filter_orders_callback(...): "retry" is truthy
    ELSE Step([t EXCEPT !.orderbook = OrderDict(chosen),
                        !.orderbook_is = "dict",
                        !.cjamount = amount,
                        !.total_cj_fee = TotalCjFee(chosen, amount),
                        !.utxos = IF accepted = PyFalse THEN @
                                  ELSE [k \in {PyNone} |->
                                          InOrder(UtxoOrder, DOMAIN TakerWallet)]],
              accepted # PyFalse, <<"filter_orders_callback">>)

PrepareSweep(t, chosen, accepted) ==
    PrepareSweepAt(t, chosen, SweepAmount(chosen, WalletTotal - t.total_txfee),
                   accepted)

\* Taker.prepare_my_bitcoin_data.  fee is the answer of estimate_tx_fee.
prepare_my_bitcoin_data(t, sel, addr_ok, fee, rank, accepted) ==
    IF t.cjamount # 0
    THEN PrepareSend([t EXCEPT !.my_change_addr = PyNone,
                               !.attrs = @ \cup {"my_change_addr"}],
                     sel, addr_ok)
    ELSE PrepareSweep([t EXCEPT !.my_change_addr = PyNone,
                                !.attrs = @ \cup {"my_change_addr", "input_utxos"},
                                !.input_utxos = TakerWallet,
                                !.total_txfee = Max(fee, t.n_counterparties
                                                           * txfee_default)],
                      SweepPicks(t, rank), accepted)

\* The commitment and the revelation initialize returns for podle = <<u, i>>.
CommitmentOf(podle) == <<"P", PodleCommit(PodleP2(<<"pub_of", podle[1]>>, podle[2]))>>
RevelationOf(podle) == [kind |-> "rev", utxo |-> podle[1],
                        P |-> <<"pub_of", podle[1]>>, index |-> podle[2],
                        proof |-> TRUE]

\* Taker.initialize, lines 207-227: t has its inputs, c is the answer of
\* make_commitment.
InitializeCommitted(t, c, log) ==
    IF c.podle[1] = PyNone
    THEN IF c.to = {}
         THEN Outcome(t, <<"commitment-failure">>,
                      log \o <<"commitments_debug.txt", "ABORT:errmsg">>, c.used)
         ELSE Outcome(t, <<PyFalse>>,
                      log \o <<"commitments_debug.txt", "INFO:errmsg">>, c.used)
    ELSE Outcome([t EXCEPT !.nonrespondants = DOMAIN t.orderbook],
                 <<PyTrue, t.cjamount, CommitmentOf(c.podle),
                   RevelationOf(c.podle), t.orderbook>>,
                 log \o <<"INFO:Commitment sourced OK">>, c.used)

\* Taker.initialize, lines 204-206: p is the answer of
\* prepare_my_bitcoin_data.
InitializePrepared(p, used, view, log) ==
    IF ~p.ok THEN Outcome(p.t, <<PyFalse>>, log \o p.log, used)
    ELSE InitializeCommitted(p.t, make_commitment(p.t, used, view),
                             log \o p.log)

\* Taker.initialize, lines 200-203: f is the answer of filter_orderbook.
InitializeFiltered(f, used, e, log) ==
    IF ~f.ok THEN Outcome(f.t, <<PyFalse>>, log \o f.log, used)
    ELSE InitializePrepared(
           prepare_my_bitcoin_data(f.t, e.sel, e.addr_ok, e.fee, e.rank,
                                   e.accepted),
           used, e.view, log \o f.log \o <<"INFO:Preparing bitcoin data..">>)

\* Taker.initialize, lines 199-200: t has the settings of its schedule entry.
InitializeEntry(t, used, orderbook, e, log) ==
    InitializeFiltered(
      filter_orderbook(t, orderbook, t.cjamount = 0, e.rank, e.accepted),
      used, e, log)

\* Taker.initialize(orderbook).  e holds the answers of the collaborators:
\* the chooser's ranking, filter_orders_callback's answer, the wallet's
\* selection, balance and address, the fee estimate.
initialize(t, used, orderbook, e) ==
    IF t.aborted THEN Outcome(t, <<PyFalse>>, <<>>, used)
    ELSE IF t.schedule_index + 1 = Len(t.schedule)
    THEN Outcome([t EXCEPT !.schedule_index = @ + 1], <<PyFalse>>,
                 <<"INFO:Received offers from joinmarket pit",
                   "INFO:Finished all scheduled transactions",
                   "on_finished(True)">>,
                 used)
    ELSE IF t.schedule_index + 1 > Len(t.schedule)
    THEN Outcome([t EXCEPT !.schedule_index = @ + 1], Raised("IndexError"),
                 <<"INFO:Received offers from joinmarket pit">>, used)
    ELSE InitializeEntry(
           ApplyScheduleEntry([t EXCEPT !.schedule_index = @ + 1],
                              t.schedule_index + 1, e.bal),
           used, orderbook, e, <<"INFO:Received offers from joinmarket pit">>)

\* ---- Taker.receive_utxos ----
\* jmclient.validate_address(addr)[0]
ValidAddresses == {"J1:cj", "J2:cj", "J3:cj", "J1:change", "J2:change",
                   "J3:change"}
validate_address(addr) == addr \in ValidAddresses

\* Taker.auth_counterparty(btc_sig, auth_pub, maker_pk)
auth_counterparty(btc_sig, auth_pub, maker_pk) ==
    ecdsa_verify(maker_pk, btc_sig, auth_pub)

\* add_ignored_makers with the list of makers replaced by the new ones.
add_ignored_makers_replacing(t, makers) == [t EXCEPT !.ignored_makers = makers]

\* Taker.add_ignored_makers(makers)
add_ignored_makers(t, makers) == [t EXCEPT !.ignored_makers = @ \cup makers]

\* Taker.add_honest_makers(makers)
add_honest_makers(t, makers) == [t EXCEPT !.honest_makers = @ \cup makers]

\* Taker.set_honest_only(truefalse)
set_honest_only(t, truefalse) ==
    IF truefalse /\ t.honest_makers = {} THEN t
    ELSE [t EXCEPT !.honest_only = truefalse]

\* The first loop of receive_utxos over the nicks of order: the list
\* rejected_counterparties it builds.
RECURSIVE RejectedCounterparties(_, _)
RejectedCounterparties(order, ioauth_data) ==
    IF order = <<>> THEN <<>>
    ELSE LET nick == Head(order)
             d == ioauth_data[nick]
             rest == RejectedCounterparties(Tail(order), ioauth_data)
         IN  IF nick \notin DOMAIN ioauth_data THEN rest
             ELSE (IF ~auth_counterparty(d.btc_sig, d.auth_pub, d.maker_pk)
                   THEN <<nick>> ELSE <<>>)
                  \o (IF ~validate_address(d.cj_addr)
                         \/ ~validate_address(d.change_addr)
                      THEN <<nick>> ELSE <<>>)
                  \o rest

\* The makers the first loop hands to add_ignored_makers.
InvalidAddressMakers(ioauth_data) ==
    {nick \in DOMAIN ioauth_data :
       ~validate_address(ioauth_data[nick].cj_addr)
       \/ ~validate_address(ioauth_data[nick].change_addr)}

\* for rc in rejected_counterparties: del ioauth_data[rc].  del raises
\* KeyError on a key that is not (or no longer) in the dict.
RECURSIVE DelRejected(_, _)
DelRejected(rejected, ioauth_data) ==
    IF rejected = <<>> THEN [data |-> ioauth_data, raised |-> FALSE]
    ELSE IF Head(rejected) \notin DOMAIN ioauth_data
    THEN [data |-> ioauth_data, raised |-> TRUE]
    ELSE DelRejected(Tail(rejected), Del(ioauth_data, Head(rejected)))

\* bc_interface.query_utxo_set(utxo_list): per outpoint its data or None.
NoneChainUtxo == [none |-> TRUE, value |-> 0, script |-> <<"script_of", PyNone>>,
                  native |-> FALSE]
query_utxo_set(utxo_list) ==
    [i \in DOMAIN utxo_list |->
       IF utxo_list[i] \in DOMAIN MakerChain THEN MakerChain[utxo_list[i]]
       ELSE NoneChainUtxo]

\* receive_utxos, lines 399-403: what maker nick charges and is owed.
RealCjFee(t, nick) ==
    calc_cj_fee(t.orderbook[nick].ordertype, t.orderbook[nick].cjfee, t.cjamount)
ChangeAmount(t, nick, utxo_data) ==
    SumSeq([i \in DOMAIN utxo_data |-> utxo_data[i].value]) - t.cjamount
    - t.orderbook[nick].txfee + RealCjFee(t, nick)

\* receive_utxos, lines 372-430: the data of nick after self.utxos[nick]
\* was set and the chain answered utxo_data.
ProcessUtxoData(t, nick, d, utxo_data) ==
    IF \E i \in DOMAIN utxo_data : utxo_data[i].none
    THEN [t EXCEPT !.utxos = Del(@, nick)]
    ELSE IF ~\E i \in DOMAIN utxo_data :
               pubkey_has_script(d.auth_pub, utxo_data[i].script)
    THEN t
    ELSE IF ChangeAmount(t, nick, utxo_data) < DUST_THRESHOLD
    THEN t
    ELSE [t EXCEPT
            !.outputs = @ \o <<[address |-> d.change_addr,
                                value |-> ChangeAmount(t, nick, utxo_data)],
                               [address |-> d.cj_addr, value |-> t.cjamount]>>,
            !.cjfee_total = @ + RealCjFee(t, nick),
            !.maker_txfee_contributions = @ + t.orderbook[nick].txfee,
            !.maker_utxo_data = Put(@, nick, utxo_data),
            !.nonrespondants = @ \ {nick}]

\* One pass of the second loop of receive_utxos: the Taker after the data
\* d of nick was processed.
ProcessMaker(t, nick, d) ==
    ProcessUtxoData([t EXCEPT !.utxos = Put(@, nick, d.utxo_list)], nick, d,
                    query_utxo_set(d.utxo_list))

RECURSIVE ProcessMakers(_, _, _)
ProcessMakers(t, order, ioauth_data) ==
    IF order = <<>> THEN t
    ELSE IF Head(order) \notin DOMAIN ioauth_data
    THEN ProcessMakers(t, Tail(order), ioauth_data)
    ELSE ProcessMakers(ProcessMaker(t, Head(order), ioauth_data[Head(order)]),
                       Tail(order), ioauth_data)

\* sum(self.utxos.values(), [])
RECURSIVE AllUtxos(_, _)
AllUtxos(utxos, keys) ==
    IF keys = <<>> THEN <<>>
    ELSE (IF Head(keys) \in DOMAIN utxos THEN utxos[Head(keys)] ELSE <<>>)
         \o AllUtxos(utxos, Tail(keys))

\* random.shuffle(list): the outcomes modelled are the list as it is and
\* the list reversed.
Reverse(list) == [i \in DOMAIN list |-> list[Len(list) + 1 - i]]
Shuffled(list, how) == IF how = "reverse" THEN Reverse(list) ELSE list
Shuffles == {<<"keep", "reverse">>, <<"reverse", "keep">>}

\* btc.mktx(ins, outs), deserialized: every input has an empty script.
mktx(ins, outs) ==
    [kind |-> "tx",
     ins |-> [i \in DOMAIN ins |-> [outpoint |-> ins[i], script |-> "",
                                    txinwitness |-> PyNone]],
     outs |-> [i \in DOMAIN outs |->
                 [script |-> address_to_script(outs[i].address),
                  value |-> outs[i].value]]]

\* Taker.coinjoin_address()
coinjoin_address(t) == t.my_cj_addr

\* What receive_utxos leaves behind.
Result(t, ret, log) == [t |-> t, ret |-> ret, log |-> log]

\* receive_utxos, lines 499-507: tx is the unsigned transaction; the
\* Taker's own inputs get the placeholder script.
RecordTx(t, tx, log) ==
    Result([t EXCEPT !.latest_tx =
              [tx EXCEPT !.ins =
                 [i \in DOMAIN tx.ins |->
                    IF tx.ins[i].outpoint \in DOMAIN t.input_utxos
                    THEN [tx.ins[i] EXCEPT !.script = "deadbeef"]
                    ELSE tx.ins[i]]]],
           <<PyTrue, DOMAIN t.maker_utxo_data, tx>>,
           log \o <<"INFO:Built tx, sending to counterparties.">>)

\* receive_utxos, lines 494-496: utxo_tx and outputs are shuffled.
ShuffleAndBuild(t, utxo_tx, outputs, log) ==
    RecordTx([t EXCEPT !.outputs = outputs], mktx(utxo_tx, outputs),
             log \o <<"random.shuffle">>)

\* receive_utxos, lines 490-493.
CompleteOutputs(t, shuffle, log) ==
    ShuffleAndBuild(t,
                    Shuffled(AllUtxos(t.utxos, <<PyNone>> \o NickOrder),
                             shuffle[1]),
                    Shuffled(Append(t.outputs, [address |-> coinjoin_address(t),
                                                value |-> t.cjamount]),
                             shuffle[2]),
                    log)

\* receive_utxos, lines 458-460.
MyChangeValue(t) ==
    SumFun([u \in DOMAIN t.input_utxos |-> t.input_utxos[u].value])
    - t.cjamount - t.cjfee_total
    - Max(t.total_txfee - t.maker_txfee_contributions, 0)

\* The Taker's change without the test against BITCOIN_DUST_THRESHOLD.
TakerChange_keeps_dust(t, my_change_value, shuffle, log) ==
    IF t.my_change_addr # PyNone /\ my_change_value <= 0
    THEN Result(t, Raised("ValueError"), log)
    ELSE IF t.my_change_addr # PyNone
    THEN CompleteOutputs([t EXCEPT !.outputs =
                            Append(@, [address |-> t.my_change_addr,
                                       value |-> my_change_value])],
                         shuffle, log)
    ELSE CompleteOutputs(t, shuffle, log)

\* receive_utxos, lines 466-489: the Taker's change.
TakerChange(t, my_change_value, shuffle, log) ==
    IF t.my_change_addr # PyNone /\ my_change_value <= 0
    THEN Result(t, Raised("ValueError"), log)
    ELSE IF t.my_change_addr # PyNone
            /\ my_change_value <= BITCOIN_DUST_THRESHOLD
    THEN CompleteOutputs([t EXCEPT !.my_change_addr = PyNone], shuffle, log)
    ELSE IF t.my_change_addr # PyNone
    THEN CompleteOutputs([t EXCEPT !.outputs =
                            Append(@, [address |-> t.my_change_addr,
                                       value |-> my_change_value])],
                         shuffle, log)
    ELSE CompleteOutputs(t, shuffle, log)

\* receive_utxos, lines 447-460.
EstimateFee(t, estimated_fee, shuffle, log) ==
    IF t.my_change_addr # PyNone
    THEN TakerChange([t EXCEPT !.total_txfee = estimated_fee],
                     MyChangeValue([t EXCEPT !.total_txfee = estimated_fee]),
                     shuffle, log \o <<"estimate_tx_fee">>)
    ELSE TakerChange(t, MyChangeValue(t), shuffle, log)

\* receive_utxos from line 432 on: the business logic on the makers
\* accepted, the Taker's change and the unsigned transaction.
BuildTx(t, estimated_fee, shuffle) ==
    IF Cardinality(DOMAIN t.maker_utxo_data) < minimum_makers
    THEN Result(t,
                <<PyFalse, "Not enough counterparties responded to fill, giving up">>,
                <<"INFO:Not enough counterparties, aborting.">>)
    ELSE EstimateFee([t EXCEPT !.nonrespondants = DOMAIN t.maker_utxo_data],
                     estimated_fee, shuffle,
                     <<"INFO:Got all parts, enough to build a tx">>)

\* receive_utxos, lines 362-431: the rejected makers' data are deleted and
\* the data kept are processed.
ProcessKept(t, kept, estimated_fee, shuffle) ==
    IF kept.raised THEN Result(t, Raised("KeyError"), <<>>)
    ELSE BuildTx(ProcessMakers([t EXCEPT !.maker_utxo_data = EmptyDict],
                               NickOrder, kept.data),
                 estimated_fee, shuffle)

\* Taker.receive_utxos(ioauth_data).  estimated_fee is the answer of
\* estimate_tx_fee, shuffle the outcome of the two random.shuffle calls.
receive_utxos(t, ioauth_data, estimated_fee, shuffle) ==
    IF t.aborted THEN Result(t, <<PyFalse, "User aborted">>, <<>>)
    ELSE ProcessKept(add_ignored_makers(t, InvalidAddressMakers(ioauth_data)),
                     DelRejected(RejectedCounterparties(NickOrder, ioauth_data),
                                 ioauth_data),
                     estimated_fee, shuffle)

\* ---- Taker.on_sig, self_sign, push and the notify callbacks ----
\* A value returned bare, not in a tuple.
Bare(v) == <<"bare", v>>

\* The inputs of tx whose script is still empty, in the order of the list.
RECURSIVE UnsignedFrom(_, _)
UnsignedFrom(tx, i) ==
    IF i > Len(tx.ins) THEN <<>>
    ELSE (IF tx.ins[i].script = "" THEN <<i>> ELSE <<>>)
         \o UnsignedFrom(tx, i + 1)

\* btc.verify_tx_input for the input spending outpoint, with the fallback
\* of lines 581-593 for the sigmessage of old bots: a sigmessage of two or
\* three items verifies for the one input it signs; the old style does so
\* only through the fallback, which needs the third item.
sig_good(sig, outpoint) ==
    /\ sig.signs = outpoint
    /\ sig.old_style => sig.items = 3

\* The loop of on_sig trying every sigmessage, of however many items.
RECURSIVE InsertAt_any_items(_, _, _, _)
InsertAt_any_items(tx, unsigned, k, sig) ==
    IF k > Len(unsigned) THEN 0
    ELSE IF query_utxo_set(<<tx.ins[unsigned[k]].outpoint>>)[1].none
    THEN InsertAt_any_items(tx, unsigned, k + 1, sig)
    ELSE IF sig_good(sig, tx.ins[unsigned[k]].outpoint) THEN unsigned[k]
    ELSE InsertAt_any_items(tx, unsigned, k + 1, sig)

\* on_sig, lines 554-627, from the position k of the list unsigned on: the
\* index of the input the signature is inserted at, 0 if at none.
RECURSIVE InsertAt(_, _, _, _)
InsertAt(tx, unsigned, k, sig) ==
    IF k > Len(unsigned) THEN 0
    ELSE IF query_utxo_set(<<tx.ins[unsigned[k]].outpoint>>)[1].none
    THEN InsertAt(tx, unsigned, k + 1, sig)
    ELSE IF sig.items \notin {2, 3} THEN 0
    ELSE IF sig_good(sig, tx.ins[unsigned[k]].outpoint) THEN unsigned[k]
    ELSE InsertAt(tx, unsigned, k + 1, sig)

\* list.remove(x), ignoring the ValueError of an x that is not there.
RECURSIVE Remove(_, _)
Remove(list, x) ==
    IF list = <<>> THEN <<>>
    ELSE IF Head(list) = x THEN Tail(list)
    ELSE <<Head(list)>> \o Remove(Tail(list), x)

\* on_sig, lines 595-626: the signature of nick is good for input i, whose
\* utxo the chain describes as data.
InsertSig(t, nick, i, sig, data) ==
    [t EXCEPT
       !.latest_tx.ins[i].txinwitness =
          IF sig.items = 3 THEN sig.ver_sig ELSE @,
       !.latest_tx.ins[i].script =
          IF sig.items = 3 THEN (IF data.native THEN "" ELSE "p2wpkh")
          ELSE "sig",
       !.utxos[nick] = Remove(@, t.latest_tx.ins[i].outpoint),
       !.nonrespondants =
          IF Remove(t.utxos[nick], t.latest_tx.ins[i].outpoint) = <<>>
          THEN @ \ {nick} ELSE @]

\* Taker.self_sign: the wallet signs the Taker's own inputs.
self_sign(t) ==
    [t EXCEPT !.latest_tx.ins =
       [i \in DOMAIN @ |->
          IF @[i].outpoint \in DOMAIN t.input_utxos
          THEN [@[i] EXCEPT !.script = "signed"] ELSE @[i]]]

\* btc.txhash(btc.serialize(tx))
txhash(tx) == <<"txid", tx.ins, tx.outs>>

\* push, lines 793-805: the maker the index drawn by random.randrange picks
\* under the setting tx_broadcast, "self" for i = n and for the settings
\* that broadcast themselves.  e.peer stands for the index drawn.
PeerPicked(t, e) ==
    IF e.tx_broadcast \notin {"random-peer", "not-self"} THEN "self"
    ELSE IF e.peer \in DOMAIN t.maker_utxo_data THEN e.peer
    ELSE IF e.tx_broadcast = "random-peer" THEN "self"
    ELSE CHOOSE k \in DOMAIN t.maker_utxo_data : TRUE

\* push that broadcasts before it registers the notify callbacks.
Broadcast_before_notify(t, e, log) ==
    IF e.tx_broadcast = "not-self" /\ DOMAIN t.maker_utxo_data = {}
    THEN Result(t, Raised("ValueError"), log \o <<"add_tx_notify">>)
    ELSE IF PeerPicked(t, e) # "self"
    THEN IF e.keys_is_list
         THEN Result(t, <<PeerPicked(t, e), t.latest_tx>>,
                     log \o <<"add_tx_notify">>)
         ELSE Result(t, Raised("TypeError"), log \o <<"add_tx_notify">>)
    ELSE IF e.pushed
    THEN Result(t, Bare(PyNone), log \o <<"pushtx", "add_tx_notify">>)
    ELSE Result(t, Bare(PyNone),
                log \o <<"pushtx", "add_tx_notify",
                         "on_finished(False, fromtx=True)">>)

\* push, lines 784-815: t has its txid.  e holds the setting tx_broadcast,
\* the answer of pushtx, the peer random.randrange picks ("self" for i = n)
\* and whether dict.keys() is a list (Python 2) or a view (Python 3);
\* random.randrange(0) raises ValueError.
Broadcast(t, e, log) ==
    IF e.tx_broadcast = "not-self" /\ DOMAIN t.maker_utxo_data = {}
    THEN Result(t, Raised("ValueError"), log \o <<"add_tx_notify">>)
    ELSE IF PeerPicked(t, e) # "self"
    THEN IF e.keys_is_list
         THEN Result(t, <<PeerPicked(t, e), t.latest_tx>>,
                     log \o <<"add_tx_notify">>)
         ELSE Result(t, Raised("TypeError"), log \o <<"add_tx_notify">>)
    ELSE IF e.pushed
    THEN Result(t, Bare(PyNone), log \o <<"add_tx_notify", "pushtx">>)
    ELSE Result(t, Bare(PyNone),
                log \o <<"add_tx_notify", "pushtx",
                         "on_finished(False, fromtx=True)">>)

\* Taker.push
push(t, e, log) == Broadcast([t EXCEPT !.txid = txhash(t.latest_tx)], e, log)

\* Taker.self_sign_and_push
self_sign_and_push(t, e, log) == push(self_sign(t), e, log \o <<"sign_tx">>)

\* on_sig, lines 634-644.
SigsComplete(t, e) ==
    IF UnsignedFrom(t.latest_tx, 1) # <<>> THEN Result(t, Bare(PyFalse), <<>>)
    ELSE IF t.nonrespondants # {} THEN Result(t, Raised("AssertionError"), <<>>)
    ELSE self_sign_and_push(t, e, <<"INFO:Transaction is valid, signing..">>)

\* on_sig, lines 535-633: the signature goes to input i, if any.
SigInserted(t, nick, sig, i, e) ==
    IF i = 0 THEN SigsComplete(t, e)
    ELSE SigsComplete(
           InsertSig(t, nick, i, sig,
                     query_utxo_set(<<t.latest_tx.ins[i].outpoint>>)[1]),
           e)

\* on_sig that takes the message of any maker whose utxos are in the
\* transaction, whether its signatures are awaited or not.
on_sig_of_accepted(t, nick, sig, e) ==
    IF t.aborted THEN Result(t, Bare(PyFalse), <<>>)
    ELSE IF nick \notin DOMAIN t.maker_utxo_data
    THEN Result(t, Bare(PyNone), <<>>)
    ELSE IF t.latest_tx = NoTx THEN Result(t, Raised("TypeError"), <<>>)
    ELSE SigInserted(t, nick, sig,
                     InsertAt(t.latest_tx, UnsignedFrom(t.latest_tx, 1), 1, sig),
                     e)

\* on_sig that also takes the message of a maker that has sent all its
\* signatures.
on_sig_any_nick(t, nick, sig, e) ==
    IF t.aborted THEN Result(t, Bare(PyFalse), <<>>)
    ELSE IF nick \notin DOMAIN t.utxos THEN Result(t, Bare(PyNone), <<>>)
    ELSE IF t.latest_tx = NoTx THEN Result(t, Raised("TypeError"), <<>>)
    ELSE SigInserted(t, nick, sig,
                     InsertAt(t.latest_tx, UnsignedFrom(t.latest_tx, 1), 1, sig),
                     e)

\* Taker.on_sig(nick, sigb64)
on_sig(t, nick, sig, e) ==
    IF t.aborted THEN Result(t, Bare(PyFalse), <<>>)
    ELSE IF nick \notin t.nonrespondants THEN Result(t, Bare(PyNone), <<>>)
    \* btc.serialize(self.latest_tx), line 537, of the None initialize left
    ELSE IF t.latest_tx = NoTx THEN Result(t, Raised("TypeError"), <<>>)
    ELSE SigInserted(t, nick, sig,
                     InsertAt(t.latest_tx, UnsignedFrom(t.latest_tx, 1), 1, sig),
                     e)

\* What a notify callback leaves behind: finished lists the invocations of
\* on_finished_callback with the arguments passed, an argument left out
\* being the empty tuple.
Notified(t, log, finished) ==
    [t |-> t, ret |-> Bare(PyNone), log |-> log, finished |-> finished]
Finished(res, fromtx, waittime, txdetails) ==
    [res |-> res, fromtx |-> fromtx, waittime |-> waittime,
     txdetails |-> txdetails]

\* Taker.unconfirm_callback(txd, txid)
unconfirm_callback(t, txd, txid) ==
    Notified([t EXCEPT !.waiting_for_conf = TRUE],
             <<"on_finished(True, fromtx=unconfirmed)">>,
             <<Finished(PyTrue, "unconfirmed", <<>>, <<>>)>>)

\* confirm_callback that always reports further schedule entries.
confirm_callback_always_more(t, txd, txid) ==
    IF t.aborted
    THEN Notified([t EXCEPT !.waiting_for_conf = FALSE], <<>>, <<>>)
    ELSE Notified([t EXCEPT !.waiting_for_conf = FALSE],
                  <<"on_finished(True, fromtx=True)">>,
                  <<Finished(PyTrue, PyTrue,
                             <<t.schedule[t.schedule_index + 1].waittime>>,
                             <<txd, txid>>)>>)

\* Taker.confirm_callback(txd, txid, confirmations)
confirm_callback(t, txd, txid) ==
    IF t.aborted
    THEN Notified([t EXCEPT !.waiting_for_conf = FALSE], <<>>, <<>>)
    ELSE Notified([t EXCEPT !.waiting_for_conf = FALSE],
                  <<IF t.schedule_index + 1 = Len(t.schedule)
                    THEN "on_finished(True, fromtx=False)"
                    ELSE "on_finished(True, fromtx=True)">>,
                  <<Finished(PyTrue,
                             IF t.schedule_index + 1 = Len(t.schedule)
                             THEN PyFalse ELSE PyTrue,
                             <<t.schedule[t.schedule_index + 1].waittime>>,
                             <<txd, txid>>)>>)

\* What the blockchain interface can report to the notify callbacks.
TxNotices == [txd : {"txd1", "txd2"}, txid : {"txid1"}]

\* The sigmessages a maker can send: junk, one of too many items, or one of
\* two or three items that verifies for one of its inputs or for none.
\* ver_sig is the signature the message starts with.
Sigs ==
    {[items |-> 0, signs |-> "nothing", old_style |-> FALSE, ver_sig |-> "s1"],
     [items |-> 4, signs |-> "nothing", old_style |-> FALSE, ver_sig |-> "s1"]}
    \cup [items : {2, 3}, signs : {MakerOutpoints[k].big : k \in Nicks},
          old_style : BOOLEAN, ver_sig : {"s1"}]

\* A good sigmessage with an item too many, and a second signature, as
\* valid as the first, for the input of the maker that spends p2wpkh.
PaddedSig ==
    [items |-> 4, signs |-> MakerOutpoints["J1"].big, old_style |-> FALSE,
     ver_sig |-> "s1"]
SecondSig ==
    [items |-> 3, signs |-> MakerOutpoints["J3"].big, old_style |-> FALSE,
     ver_sig |-> "s2"]

PushAnswers ==
    [tx_broadcast : {"self", "random-peer", "not-self", "unsupported"},
     pushed : BOOLEAN,
     peer : {"J1", "self"}, keys_is_list : BOOLEAN]
NoPushAnswers ==
    [tx_broadcast |-> "self", pushed |-> TRUE, peer |-> "self",
     keys_is_list |-> TRUE]

\* ---- what the makers can send in !ioauth ----
CjAddr(nick) == CASE nick = "J1" -> "J1:cj" [] nick = "J2" -> "J2:cj"
                  [] OTHER -> "J3:cj"
ChangeAddr(nick) == CASE nick = "J1" -> "J1:change" [] nick = "J2" -> "J2:change"
                      [] OTHER -> "J3:change"
MakerPk(nick) == <<"pk", nick>>
NobodysKey == <<"K", "nobody">>

\* The honest answer of maker nick, and the ways it can be off.
HonestData(nick) ==
    [utxo_list |-> <<MakerOutpoints[nick].big>>,
     auth_pub |-> MakerKey(nick),
     cj_addr |-> CjAddr(nick),
     change_addr |-> ChangeAddr(nick),
     btc_sig |-> ecdsa_sign(MakerPk(nick), MakerKey(nick)),
     maker_pk |-> MakerPk(nick)]
NickData(nick, variant) ==
    LET h == HonestData(nick)
        badsig == ecdsa_sign(MakerPk(nick), NobodysKey)
    IN  CASE variant = "badsig" -> [h EXCEPT !.btc_sig = badsig]
          [] variant = "badaddr" -> [h EXCEPT !.cj_addr = "invalid"]
          [] variant = "badboth" -> [h EXCEPT !.btc_sig = badsig,
                                              !.change_addr = "invalid"]
          [] variant = "wrongpub" -> [h EXCEPT !.auth_pub = NobodysKey,
                                               !.btc_sig = badsig]
          [] variant = "small" ->
               [h EXCEPT !.utxo_list = <<MakerOutpoints[nick].small>>]
          [] variant = "gone" ->
               [h EXCEPT !.utxo_list = <<MakerOutpoints[nick].gone>>]
          [] OTHER -> h

VariantsOf(nick) ==
    CASE nick = "J1" -> {"honest", "badsig", "badaddr", "badboth", "wrongpub",
                         "small", "gone"}
      [] nick = "J2" -> {"honest", "badboth", "small"}
      [] OTHER -> {"honest", "wrongpub", "gone"}

\* The ioauth_data dicts the daemon can hand over when the makers of nicks
\* were sent !fill: any of them may have answered, each in one of its ways.
IoauthData(nicks) ==
    UNION {{[k \in answered |-> NickData(k, v[k])] :
              v \in [answered -> {"honest", "badsig", "badaddr", "badboth",
                                  "wrongpub", "small", "gone"}]}
           : answered \in SUBSET nicks}

IoauthFirst ==
    {d \in IoauthData(Nicks) :
       \A k \in DOMAIN d : \E v \in VariantsOf(k) : d[k] = NickData(k, v)}
IoauthRetry ==
    {d \in IoauthData(Nicks) : \A k \in DOMAIN d : d[k] = HonestData(k)}

\* The answers to a repeated !fill: a maker answers honestly, or J1 answers
\* with a signature that does not verify or with an invalid address.
IoauthAgain ==
    {d \in IoauthFirst :
       \A k \in DOMAIN d :
          d[k] \in {HonestData(k), NickData(k, "badsig"), NickData(k, "badaddr")}}

FeeEstimates == {10000, 99900, 120000}
ReceiveAnswers == [fee : FeeEstimates, shuffle : Shuffles]
NoAnswers == [fee |-> 10000, shuffle |-> <<"keep", "reverse">>]

InitializeAnswers ==
    [rank : ChooserRanks, accepted : {PyTrue, PyFalse, "retry"},
     sel : {{}, {"T1"}, {"T1", "T2"}}, addr_ok : BOOLEAN,
     fee : {10000}, bal : {0}, view : ChainViews]

\* Stores of used commitments the Taker can start with: all of the
\* wallet's but one, and all of the external ones as well.
UsedOnce == {<<"T1", 0>>, <<"T1", 1>>, <<"T1", 2>>, <<"T2", 0>>, <<"T2", 1>>}
UsedExternal == {<<"X1", 0>>, <<"X1", 1>>, <<"X1", 2>>}

\* ---- the Taker's actions ----
TakerInit ==
    /\ taker = NewTaker
    /\ t_pc = "idle"
    /\ t_call = NoCall
    /\ t_ret = NoRet
    /\ t_log = <<>>
    /\ t_stage = "start"
    /\ used_commitments \in {{}, UsedOnce, UsedOnce \cup UsedExternal}
    /\ revealed = {}

\* initialize has run on orderbook with the answers e and left o.
InitializeReturns(o, orderbook, e) ==
    /\ taker' = o.t
    /\ t_ret' = o.ret
    /\ t_log' = o.log
    /\ used_commitments' = o.used
    /\ t_call' = [op |-> "initialize", orderbook |-> orderbook, e |-> e,
                  before |-> taker]
    /\ revealed' = IF o.ret[1] = PyTrue
                   THEN revealed \cup {<<o.ret[4].utxo, o.ret[4].index>>}
                   ELSE revealed
    /\ t_stage' = IF o.ret[1] = PyTrue THEN "commit" ELSE "start"

\* The relay starts the next schedule entry with the orderbook the daemon
\* returned, when it waits for nothing else or (stages) gives up the step
\* it waited for.
InitializeFrom(stages, orderbooks, answers) ==
    /\ t_pc = "idle"
    /\ t_stage \in stages
    /\ taker.schedule_index <= Len(taker.schedule)
    /\ \E orderbook \in orderbooks, e \in answers :
         InitializeReturns(initialize(taker, used_commitments, orderbook, e),
                           orderbook, e)
    /\ t_pc' = "ret"
    /\ UNCHANGED mvars

TakerInitialize ==
    InitializeFrom({"start", "commit"}, Orderbooks, InitializeAnswers)

\* receive_utxos has run on ioauth_data with the answers e and left o.  A
\* call that ends before the fee estimate or the shuffles consulted neither.
ReceiveUtxosReturns(o, ioauth_data, e) ==
    /\ "random.shuffle" \in Range(o.log) \/ e.shuffle = NoAnswers.shuffle
    /\ "estimate_tx_fee" \in Range(o.log) \/ e.fee = NoAnswers.fee
    /\ taker' = o.t
    /\ t_ret' = o.ret
    /\ t_log' = o.log
    /\ t_call' = [op |-> "receive_utxos", ioauth_data |-> ioauth_data,
                  e |-> e, before |-> taker]
    /\ t_stage' = IF o.ret[1] = "raise" THEN "crashed"
                  ELSE IF t_stage = "tx" THEN "late"
                  ELSE IF o.ret[1] = PyTrue THEN "tx"
                  ELSE IF t_stage = "commit" THEN "retry"
                  ELSE "failed"

\* The daemon hands over the !ioauth answers of makers it sent !fill to;
\* after a failure the relay lets the makers answer once more (retry).
ReceiveUtxosAt(stages, first, retry, answers) ==
    /\ t_pc = "idle"
    /\ t_stage \in stages
    /\ \E ioauth_data \in IF t_stage = "commit" THEN first ELSE retry,
          e \in answers :
         /\ DOMAIN ioauth_data \subseteq DOMAIN taker.orderbook
         /\ ReceiveUtxosReturns(
              receive_utxos(taker, ioauth_data, e.fee, e.shuffle),
              ioauth_data, e)
    /\ t_pc' = "ret"
    /\ UNCHANGED <<used_commitments, revealed>>
    /\ UNCHANGED mvars

\* The !ioauth answers that come when the Taker waits for them.
ReceiveUtxosFrom(first, retry, answers) ==
    ReceiveUtxosAt({"commit", "retry"}, first, retry, answers)

\* on_sig has run on the signature sig of nick and left o.  A call that
\* does not get to push consulted none of its answers; self-broadcast
\* consults pushtx alone.
OnSigReturns(o, nick, sig, e) ==
    /\ "add_tx_notify" \in Range(o.log) \/ e = NoPushAnswers
    /\ e.tx_broadcast \in {"self", "unsupported"} =>
         (e.peer = NoPushAnswers.peer /\ e.keys_is_list)
    /\ taker' = o.t
    /\ t_ret' = o.ret
    /\ t_log' = o.log
    /\ t_call' = [op |-> "on_sig", nick |-> nick, sig |-> sig, e |-> e,
                  before |-> taker]
    /\ t_stage' = IF o.ret[1] = "raise" THEN "crashed"
                  ELSE IF "on_finished(False, fromtx=True)" \in Range(o.log)
                  THEN "start"
                  ELSE IF "add_tx_notify" \in Range(o.log) THEN "pushed"
                  ELSE t_stage

\* The daemon hands over a !sig message of a maker, in one of the stages.
OnSigAt(stages, sigs, answers) ==
    /\ t_pc = "idle"
    /\ t_stage \in stages
    /\ \E nick \in Nicks, sig \in sigs, e \in answers :
         OnSigReturns(on_sig(taker, nick, sig, e), nick, sig, e)
    /\ t_pc' = "ret"
    /\ UNCHANGED <<used_commitments, revealed>>
    /\ UNCHANGED mvars

\* The !sig messages that come when the Taker waits for them.
OnSigFrom(sigs, answers) == OnSigAt({"tx"}, sigs, answers)

\* The blockchain interface sees the transaction on the network, then in a
\* block, and calls back.
NotifyReturns(o, op, notice, stage) ==
    /\ taker' = o.t
    /\ t_ret' = o.ret
    /\ t_log' = o.log
    /\ t_call' = [op |-> op, notice |-> notice, finished |-> o.finished,
                  before |-> taker]
    /\ t_stage' = stage

TakerUnconfirmCallback ==
    /\ t_pc = "idle"
    /\ t_stage = "pushed"
    /\ \E notice \in TxNotices :
         NotifyReturns(unconfirm_callback(taker, notice.txd, notice.txid),
                       "unconfirm_callback", notice, "seen")
    /\ t_pc' = "ret"
    /\ UNCHANGED <<used_commitments, revealed>>
    /\ UNCHANGED mvars

TakerConfirmCallback ==
    /\ t_pc = "idle"
    /\ t_stage = "seen"
    /\ \E notice \in TxNotices :
         NotifyReturns(confirm_callback(taker, notice.txd, notice.txid),
                       "confirm_callback", notice, "start")
    /\ t_pc' = "ret"
    /\ UNCHANGED <<used_commitments, revealed>>
    /\ UNCHANGED mvars

\* The handler's result has gone back to the relay.
TakerReturn ==
    /\ t_pc = "ret"
    /\ t_pc' = "idle"
    /\ t_call' = NoCall
    /\ t_ret' = NoRet
    /\ t_log' = <<>>
    /\ UNCHANGED <<taker, t_stage, used_commitments, revealed>>
    /\ UNCHANGED mvars

\* The user aborts: Taker.aborted is set.
TakerAbort ==
    /\ t_pc = "idle"
    /\ ~taker.aborted
    /\ taker' = [taker EXCEPT !.aborted = TRUE]
    /\ UNCHANGED <<t_pc, t_call, t_ret, t_log, t_stage, used_commitments,
                   revealed>>
    /\ UNCHANGED mvars

\* The Maker, at rest.
MakerIdle == MakerInit

TakerSpecInit == TakerInit /\ MakerIdle

\* ---- the Taker up to the unsigned transaction ----
FillInitializeAnswers ==
    [rank : {<<"J1", "J2", "J3">>}, accepted : {PyTrue, PyFalse},
     sel : {{"T1"}, {"T1", "T2"}}, addr_ok : {TRUE}, fee : {10000}, bal : {0},
     view : {"settled"}]

FillInitialize == InitializeFrom({"start", "tx"}, Orderbooks, FillInitializeAnswers)

TakerReceiveUtxos == ReceiveUtxosFrom(IoauthFirst, IoauthAgain, ReceiveAnswers)

FillNext ==
    \/ FillInitialize
    \/ TakerReceiveUtxos
    \/ TakerReturn
    \/ TakerAbort

\* ---- the Taker's commitments over a schedule ----
CommitNext ==
    \/ TakerInitialize
    \/ TakerReturn
    \/ TakerAbort

SpecTakerCommit == TakerSpecInit /\ [][CommitNext]_vars

SpecTakerFill == TakerSpecInit /\ [][FillNext]_vars

\* ---- a Taker and a Maker through whole coinjoins ----
\* The Taker meets makers that answer honestly or not at all, the Maker a
\* well-formed !auth or a junk one, and the transaction it expects or junk.
JoinInitializeAnswers ==
    {e \in InitializeAnswers :
       /\ e.rank = <<"J1", "J2", "J3">>
       /\ e.accepted = PyTrue
       /\ e.sel = {"T1", "T2"}
       /\ e.addr_ok
       /\ e.view = "settled"}
JoinIoauth ==
    {d \in IoauthRetry : DOMAIN d \in {Nicks, {"J1", "J2"}, {"J1"}}}
JoinReceiveAnswers == {NoAnswers}
JoinSigs == {sig \in Sigs : sig.items \in {0, 3} /\ ~sig.old_style}
JoinCrs ==
    {cr \in Revelations :
       cr.P = "PA" /\ cr.index = taker_utxo_retries - 1 /\ cr.proof}
    \cup {JunkRevelation}
JoinChain ==
    {res \in ChainAnswers :
       /\ ~res.none
       /\ res.value = 20
       /\ res.confirms = taker_utxo_age
       /\ res.script = <<"script_of", "PA">>}
JoinOfferInfos ==
    {o \in OfferInfos :
       /\ o.utxos = MakerUtxos1
       /\ o.changeaddr = "A2"
       /\ o.amount = 1
       /\ o.offer.oid = 0}
JoinTxHexes ==
    {JunkTx,
     Tx(<<"u1">>, <<[script |-> address_to_script("A1"), value |-> 1],
                    [script |-> address_to_script("A2"), value |-> 2]>>)}

JoinInitialize == InitializeFrom({"start"}, {Nicks}, JoinInitializeAnswers)
JoinReceiveUtxos == ReceiveUtxosFrom(JoinIoauth, JoinIoauth, JoinReceiveAnswers)
JoinOnSig == OnSigFrom(JoinSigs, PushAnswers)
JoinOnAuthReceived ==
    OnAuthReceivedFrom({PodleCommit(PodleP2("PA", taker_utxo_retries - 1))},
                       JoinCrs, {100}, JoinChain,
                       {o \in OidToOrderAnswers : o.utxos = MakerUtxos1})
JoinOnTxReceived == OnTxReceivedFrom(JoinTxHexes, JoinOfferInfos)

CoinjoinNext ==
    \/ JoinInitialize
    \/ JoinReceiveUtxos
    \/ JoinOnSig
    \/ TakerUnconfirmCallback
    \/ TakerConfirmCallback
    \/ TakerReturn
    \/ TakerAbort
    \/ WalletSyncs
    \/ try_to_create_my_orders
    \/ JoinOnAuthReceived
    \/ JoinOnTxReceived
    \/ MakerReturn
    \/ MakerAbort

SpecCoinjoin == TakerSpecInit /\ [][CoinjoinNext]_vars

\* ---- the Taker collecting signatures ----
\* The makers answer !fill honestly or not at all, and the relay delivers
\* their messages in any phase of the schedule entry: a !sig before the
\* transaction is built, !ioauth answers once more after it is.
SignInitialize == InitializeFrom({"start"}, {Nicks}, JoinInitializeAnswers)
SignReceiveUtxos ==
    ReceiveUtxosAt({"commit", "retry", "tx"}, JoinIoauth, JoinIoauth,
                   JoinReceiveAnswers)
\* The sigmessages: junk, the segwit one for each maker's input, a legacy
\* one and one of an old bot.
SignSigs ==
    {sig \in Sigs :
       \/ sig.items = 0
       \/ sig.items = 3 /\ ~sig.old_style
       \/ sig.items = 2 /\ ~sig.old_style /\ sig.signs = MakerOutpoints["J1"].big
       \/ sig.items = 3 /\ sig.old_style /\ sig.signs = MakerOutpoints["J2"].big}
    \cup {PaddedSig, SecondSig}
SignOnSig == OnSigAt({"commit", "tx", "late"}, SignSigs, PushAnswers)

SignNext ==
    \/ SignInitialize
    \/ SignReceiveUtxos
    \/ SignOnSig
    \/ TakerUnconfirmCallback
    \/ TakerConfirmCallback
    \/ TakerReturn
    \/ TakerAbort

SpecTakerSign == TakerSpecInit /\ [][SignNext]_vars

\* ---- the Taker over a tumbler schedule ----
\* Fractions of the balance of mixdepth 0, twice, then of mixdepth 1, twice.
TumbleSchedule ==
    <<[mixdepth |-> 0, cjamount |-> FloatAmount(1, 2), n_counterparties |-> 2,
       destaddr |-> "INTERNAL", waittime |-> 10],
      [mixdepth |-> 0, cjamount |-> FloatAmount(1, 1), n_counterparties |-> 2,
       destaddr |-> "INTERNAL", waittime |-> 10],
      [mixdepth |-> 1, cjamount |-> FloatAmount(1, 2), n_counterparties |-> 2,
       destaddr |-> "INTERNAL", waittime |-> 10],
      [mixdepth |-> 1, cjamount |-> FloatAmount(1, 4), n_counterparties |-> 2,
       destaddr |-> "T9", waittime |-> 20]>>

\* What wallet.get_balance_by_mixdepth answers for the mixdepth asked.
MixdepthBalances == {120000, 200000, 400000}

TumbleAnswers ==
    [rank : {<<"J1", "J2", "J3">>}, accepted : {PyTrue, PyFalse},
     sel : {{"T1", "T2"}}, addr_ok : {TRUE}, fee : {10000},
     bal : MixdepthBalances, view : {"settled"}]

TumbleInit ==
    /\ taker = [NewTaker EXCEPT !.schedule = TumbleSchedule]
    /\ t_pc = "idle"
    /\ t_call = NoCall
    /\ t_ret = NoRet
    /\ t_log = <<>>
    /\ t_stage = "start"
    /\ used_commitments = {}
    /\ revealed = {}
    /\ MakerIdle

TumbleInitialize ==
    InitializeFrom({"start", "commit"}, Orderbooks, TumbleAnswers)

TumbleNext ==
    \/ TumbleInitialize
    \/ TakerReturn
    \/ TakerAbort

SpecTakerTumble == TumbleInit /\ [][TumbleNext]_vars

\* ---- the Taker and !sig messages that come again ----
\* The relay delivers a !sig in any phase, also after the transaction has
\* been pushed, seen or confirmed, or after a handler has raised.
ReplayOnSig ==
    OnSigAt({"start", "commit", "tx", "late", "pushed", "seen", "crashed"},
            JoinSigs,
            {e \in PushAnswers : e.tx_broadcast \in {"self", "not-self"}})

\* So are the !ioauth answers, which make the Taker build its transaction
\* once more.
\* The Taker's list of outputs grows with every transaction it builds for
\* one schedule entry: the answers stop coming when it is this long.
MaxOutputsKept == 8
ReplayIoauth == {d \in JoinIoauth : DOMAIN d # {"J1"}}
ReplayReceiveUtxos ==
    /\ Len(taker.outputs) <= MaxOutputsKept
    /\ ReceiveUtxosAt({"commit", "pushed"}, ReplayIoauth, ReplayIoauth,
                      JoinReceiveAnswers)

ReplayNext ==
    \/ SignInitialize
    \/ ReplayReceiveUtxos
    \/ ReplayOnSig
    \/ TakerUnconfirmCallback
    \/ TakerConfirmCallback
    \/ TakerReturn
    \/ TakerAbort

SpecTakerReplay == TakerSpecInit /\ [][ReplayNext]_vars

\* ---- the Taker and its lists of makers ----
\* A sweep, a payment, and again a sweep and a payment.
SweepSchedule ==
    <<[mixdepth |-> 0, cjamount |-> IntAmount(0), n_counterparties |-> 2,
       destaddr |-> "T9", waittime |-> 10],
      [mixdepth |-> 0, cjamount |-> IntAmount(100000), n_counterparties |-> 2,
       destaddr |-> "T9", waittime |-> 10],
      [mixdepth |-> 0, cjamount |-> IntAmount(0), n_counterparties |-> 2,
       destaddr |-> "INTERNAL", waittime |-> 10],
      [mixdepth |-> 0, cjamount |-> IntAmount(100000), n_counterparties |-> 2,
       destaddr |-> "INTERNAL", waittime |-> 20]>>

ListsInit ==
    /\ taker = [NewTaker EXCEPT !.schedule = SweepSchedule]
    /\ t_pc = "idle"
    /\ t_call = NoCall
    /\ t_ret = NoRet
    /\ t_log = <<>>
    /\ t_stage = "start"
    /\ used_commitments = {}
    /\ revealed = {}
    /\ MakerIdle

ListsAnswers ==
    [rank : ChooserRanks, accepted : {PyTrue}, sel : {{"T1", "T2"}},
     addr_ok : {TRUE}, fee : {10000}, bal : {0}, view : {"settled"}]

ListsInitialize ==
    InitializeFrom({"start", "commit", "retry", "failed", "tx", "pushed"},
                   Orderbooks, ListsAnswers)

\* The !ioauth answers: honest ones, or J1's with an invalid address.
ListsIoauth ==
    {d \in IoauthFirst :
       \A k \in DOMAIN d : d[k] \in {HonestData(k), NickData(k, "badaddr")}}
ListsReceiveUtxos == ReceiveUtxosFrom(ListsIoauth, ListsIoauth, {NoAnswers})
ListsOnSig ==
    OnSigFrom({sig \in JoinSigs : sig.items = 3}, {NoPushAnswers})

\* A method of the Taker that the client script calls has run and left t.
ListCallReturns(t, op, arg) ==
    /\ t_pc = "idle"
    /\ taker' = t
    /\ t_ret' = Bare(PyNone)
    /\ t_log' = <<>>
    /\ t_call' = [op |-> op, arg |-> arg, before |-> taker]
    /\ t_pc' = "ret"
    /\ UNCHANGED <<t_stage, used_commitments, revealed>>
    /\ UNCHANGED mvars

\* The lists of makers the client script passes.
IgnoredLists == {{"J3"}, {"J1"}}
HonestLists == {{"J1", "J2"}, {"J2", "J3"}}

TakerAddIgnoredMakers ==
    \E makers \in IgnoredLists :
      ListCallReturns(add_ignored_makers(taker, makers), "add_ignored_makers",
                      makers)

TakerAddHonestMakers ==
    \E makers \in HonestLists :
      ListCallReturns(add_honest_makers(taker, makers), "add_honest_makers",
                      makers)

TakerSetHonestOnly ==
    \E truefalse \in BOOLEAN :
      ListCallReturns(set_honest_only(taker, truefalse), "set_honest_only",
                      truefalse)

ListsNext ==
    \/ ListsInitialize
    \/ ListsReceiveUtxos
    \/ ListsOnSig
    \/ TakerAddIgnoredMakers
    \/ TakerAddHonestMakers
    \/ TakerSetHonestOnly
    \/ TakerReturn
    \/ TakerAbort

SpecTakerLists == ListsInit /\ [][ListsNext]_vars

\* ---- Maker.modify_orders ----
\* The offers of the list whose oid is oid: [o for o in offerlist if ...].
RECURSIVE OffersWithOid(_, _)
OffersWithOid(offers, oid) ==
    IF offers = <<>> THEN <<>>
    ELSE (IF Head(offers).oid = oid THEN <<Head(offers)>> ELSE <<>>)
         \o OffersWithOid(Tail(offers), oid)

\* modify_orders, lines 239-244: the loop over to_cancel.  order[0] of an
\* empty list raises IndexError; what was cancelled before stays cancelled.
RECURSIVE CancelOrders(_, _, _)
CancelOrders(offers, to_cancel, log) ==
    IF to_cancel = <<>> THEN [offers |-> offers, raised |-> FALSE, log |-> log]
    ELSE IF OffersWithOid(offers, Head(to_cancel)) = <<>>
    THEN [offers |-> offers, raised |-> TRUE,
          log |-> log \o <<"INFO:didnt cancel order which doesnt exist">>]
    ELSE CancelOrders(Remove(offers, OffersWithOid(offers, Head(to_cancel))[1]),
                      Tail(to_cancel), log)

\* modify_orders, lines 246-250: the old order of each announcement goes.
RECURSIVE ReplaceOrders(_, _)
ReplaceOrders(offers, to_announce) ==
    IF to_announce = <<>> THEN offers
    ELSE IF OffersWithOid(offers, Head(to_announce).oid) = <<>>
    THEN ReplaceOrders(offers, Tail(to_announce))
    ELSE ReplaceOrders(
           Remove(offers, OffersWithOid(offers, Head(to_announce).oid)[1]),
           Tail(to_announce))

\* Maker.modify_orders(to_cancel, to_announce) on the list offers.
modify_orders(offers, to_cancel, to_announce) ==
    IF CancelOrders(offers, to_cancel, <<>>).raised
    THEN [offers |-> CancelOrders(offers, to_cancel, <<>>).offers,
          ret |-> Raised("IndexError"),
          log |-> CancelOrders(offers, to_cancel, <<>>).log]
    ELSE [offers |-> ReplaceOrders(
                       CancelOrders(offers, to_cancel, <<>>).offers,
                       to_announce)
                     \o to_announce,
          ret |-> Bare(PyNone),
          log |-> CancelOrders(offers, to_cancel, <<>>).log]

\* The offers a subclass announces, the oids it cancels, and the longest
\* offerlist followed.
MaxOffers == 3
OrderOids == {0, 1}
AnnouncedOffers ==
    [oid : OrderOids, ordertype : {"absoffer"}, cjfee : {<<1, 1>>, <<2, 1>>},
     txfee : {0}]
CancelledOids == OrderOids \cup {2}

\* The subclass calls modify_orders from a notify callback.
MakerModifyOrders ==
    /\ MakerReady
    /\ \E to_cancel \in SeqsUpTo(CancelledOids, 2),
          to_announce \in SeqsUpTo(AnnouncedOffers, 2) :
         /\ Len(offerlist.offers) + Len(to_announce) <= MaxOffers
         /\ m_call' = [op |-> "modify_orders", to_cancel |-> to_cancel,
                       to_announce |-> to_announce, before |-> offerlist.offers]
         /\ m_ret' = modify_orders(offerlist.offers, to_cancel, to_announce).ret
         /\ m_log' = modify_orders(offerlist.offers, to_cancel, to_announce).log
         /\ offerlist' = [offerlist EXCEPT !.offers =
                            modify_orders(@, to_cancel, to_announce).offers]
    /\ m_pc' = "ret"
    /\ UNCHANGED <<m_signed, active_orders, m_aborted, wallet_synced,
                   sync_wait_loop>>
    /\ UNCHANGED tvars

OrdersNext ==
    \/ WalletSyncs
    \/ try_to_create_my_orders
    \/ MakerModifyOrders
    \/ MakerReturn

\* The Taker, not started.
TakerIdle ==
    /\ taker = [aborted |-> FALSE]
    /\ t_pc = "idle"
    /\ t_call = NoCall
    /\ t_ret = NoRet
    /\ t_log = <<>>
    /\ t_stage = "start"
    /\ used_commitments = {}
    /\ revealed = {}

MakerSpecInit == MakerInit /\ TakerIdle

SpecMaker == MakerSpecInit /\ [][MakerNext]_vars

SpecMakerOrders == MakerSpecInit /\ [][OrdersNext]_vars

\* The same, with the polling of sync_wait_loop (a LoopingCall of 2 s, started
\* by the constructor) never starved while it is running.
SpecMakerPolling ==
    MakerSpecInit /\ [][OrdersNext]_vars /\ WF_vars(try_to_create_my_orders)

-----------------------------------------------------------------------------
(*                        CLAIMS ABOUT THE TAKER                            *)

\* The call of receive_utxos that has just ended, if any.
FillCallDone == t_pc = "ret" /\ t_call.op = "receive_utxos"
FillSucceeded == FillCallDone /\ t_ret[1] = PyTrue

\* What maker nick is owed as change, from its !ioauth data d and the chain.
MakerChangeDue(t, nick, d) ==
    LET utxo_data == query_utxo_set(d.utxo_list)
    IN  SumSeq([i \in DOMAIN utxo_data |-> utxo_data[i].value]) - t.cjamount
        - t.orderbook[nick].txfee
        + calc_cj_fee(t.orderbook[nick].ordertype, t.orderbook[nick].cjfee,
                      t.cjamount)

\* Maker nick passes all checks of receive_utxos: signature, addresses,
\* utxos known to the chain, authorising pubkey among them, change not dust.
PassesAllChecks(t, ioauth_data, nick) ==
    LET d == ioauth_data[nick]
        utxo_data == query_utxo_set(d.utxo_list)
    IN  /\ ecdsa_verify(d.maker_pk, d.btc_sig, d.auth_pub)
        /\ d.cj_addr \in ValidAddresses
        /\ d.change_addr \in ValidAddresses
        /\ \A i \in DOMAIN utxo_data : ~utxo_data[i].none
        /\ \E i \in DOMAIN utxo_data :
             utxo_data[i].script = <<"script_of", d.auth_pub>>
        /\ MakerChangeDue(t, nick, d) >= DUST_THRESHOLD

PassingMakers(t, ioauth_data) ==
    {nick \in DOMAIN ioauth_data : PassesAllChecks(t, ioauth_data, nick)}

\* C6: whenever receive_utxos returns (True, accepted_makers, tx), there are
\* at least minimum_makers accepted makers and nonrespondants equals them;
\* whenever fewer than minimum_makers makers pass all checks it returns
\* (False, ...) and latest_tx stays unset.
C6_EnoughMakersOrNoTx ==
    FillCallDone =>
      /\ t_ret[1] = PyTrue =>
           /\ Cardinality(t_ret[2]) >= minimum_makers
           /\ taker.nonrespondants = t_ret[2]
      /\ Cardinality(PassingMakers(t_call.before, t_call.ioauth_data))
           < minimum_makers =>
           /\ t_ret[1] = PyFalse
           /\ taker.latest_tx = NoTx

\* How often output x occurs in the list outs.
Count(outs, x) == Cardinality({i \in DOMAIN outs : outs[i] = x})

\* C7: the outputs of the unsigned transaction a successful receive_utxos
\* returns are exactly one (cj_addr, cjamount) and one (change_addr,
\* change_amount) per accepted maker, one (my_cj_addr, cjamount) of the Taker
\* and at most one Taker change output, whatever calls came before.
C7_OutputsAreExactlyTheShares ==
    FillSucceeded =>
      LET outs == t_ret[3].outs
          t == t_call.before
          makers == t_ret[2]
          extra == Len(outs) - (2 * Cardinality(makers) + 1)
      IN  /\ \A k \in makers :
                LET d == t_call.ioauth_data[k]
                IN  /\ Count(outs, [script |-> address_to_script(d.cj_addr),
                                    value |-> t.cjamount]) = 1
                    /\ Count(outs, [script |-> address_to_script(d.change_addr),
                                    value |-> MakerChangeDue(t, k, d)]) = 1
          /\ Count(outs, [script |-> address_to_script(t.my_cj_addr),
                          value |-> t.cjamount]) = 1
          /\ extra \in {0, 1}
          /\ extra = 1 =>
               \E i \in DOMAIN outs :
                  outs[i].script = address_to_script(t.my_change_addr)
          /\ Cardinality({i \in DOMAIN outs : outs[i].value = t.cjamount})
               = Cardinality(makers) + 1

\* C8: no entry point of the Taker or of the Maker ends by raising.
C8_NoEntryPointRaises ==
    /\ t_ret[1] # "raise"
    /\ m_ret[1] # "raise"

\* An entry point of the Taker has returned from a call made with the abort
\* flag set, or one of the Maker has.
TakerCalledAborted ==
    /\ t_pc = "ret"
    /\ t_call.op \in {"initialize", "receive_utxos", "on_sig"}
    /\ t_call.before.aborted
MakerCalledAborted ==
    /\ m_pc = "ret"
    /\ m_call.op \in {"on_auth_received", "on_tx_received"}
    /\ m_aborted

\* C9: once the abort flag of a role is set, each of its entry points
\* returns (False, "User aborted") and changes no state: the Taker's fields
\* are as before the call, no hook ran, nothing is signed or broadcast.
C9_AbortShortCircuits ==
    /\ TakerCalledAborted =>
         /\ t_ret = <<PyFalse, "User aborted">>
         /\ taker = t_call.before
         /\ t_log = <<>>
    /\ MakerCalledAborted =>
         /\ m_ret = <<PyFalse, "User aborted">>
         /\ m_signed = {}
         /\ m_log = <<>>

\* A successful initialize call has just returned.
InitializeSucceeded ==
    t_pc = "ret" /\ t_call.op = "initialize" /\ t_ret[1] = PyTrue

SigCallDone == t_pc = "ret" /\ t_call.op = "on_sig"
\* A !sig of a maker the Taker sent !fill to, before receive_utxos has
\* built a transaction.
EarlySig ==
    /\ SigCallDone
    /\ t_call.before.latest_tx = NoTx
    /\ t_call.nick \in t_call.before.nonrespondants
\* !ioauth answers while the Taker awaits the signatures for the
\* transaction it has built.
LateIoauth == FillCallDone /\ t_call.before.latest_tx # NoTx

\* The handler returned a rejection.
Rejection == t_ret[1] \notin {"raise", PyTrue} /\ Len(t_ret) <= 2
\* The handler left the fields of the transaction under way alone.
TxFieldsKept ==
    /\ taker.utxos = t_call.before.utxos
    /\ taker.outputs = t_call.before.outputs
    /\ taker.nonrespondants = t_call.before.nonrespondants
    /\ taker.cjfee_total = t_call.before.cjfee_total
    /\ taker.latest_tx = t_call.before.latest_tx

\* C11: a maker's message in the wrong phase of the schedule entry, a !sig
\* before the transaction is built or !ioauth answers while signatures are
\* awaited, is answered with a rejection and changes none of utxos,
\* outputs, nonrespondants, cjfee_total and latest_tx.
C11_WrongPhaseRejected ==
    (EarlySig \/ LateIoauth) => (Rejection /\ TxFieldsKept)

\* C12: self_sign_and_push runs only with every input of latest_tx signed
\* and nonrespondants empty, and whenever on_sig finds all inputs signed
\* nonrespondants is empty: the assertion of on_sig never fails.
C12_PushOnlyWhenAllSigned ==
    SigCallDone =>
      /\ "sign_tx" \in Range(t_log) =>
           /\ UnsignedFrom(taker.latest_tx, 1) = <<>>
           /\ taker.nonrespondants = {}
      /\ t_ret # Raised("AssertionError")

\* The on_sig call that has just ended took the last accepted maker's last
\* input off the list: every accepted maker has delivered a valid signature
\* for each of its inputs (and no !ioauth answers came late in between).
AllMakersDelivered ==
    /\ SigCallDone
    /\ t_stage # "late"
    /\ t_call.before.nonrespondants # {}
    /\ taker.nonrespondants = {}

\* C13: once every accepted maker has delivered a valid signature for each
\* of its inputs, of whatever script type, the Taker finds all inputs signed
\* and goes on to self_sign_and_push.  on_sig passes no message of a nick
\* that is not in nonrespondants, so the Taker goes on in the call that
\* empties nonrespondants or never.
C13_SignaturesComplete ==
    AllMakersDelivered => "sign_tx" \in Range(t_log)

\* The outputs of tx that pay the address addr.
OutsToAddress(tx, addr) ==
    {i \in DOMAIN tx.outs : tx.outs[i].script = address_to_script(addr)}

\* The call of receive_utxos that has just ended was of a non-sweep entry:
\* the Taker had a change address when it began.
FillWithChange == FillCallDone /\ t_call.before.my_change_addr # PyNone

SubDustMakers(t, ioauth_data) ==
    {nick \in DOMAIN ioauth_data :
       LET d == ioauth_data[nick]
           utxo_data == query_utxo_set(d.utxo_list)
       IN  /\ ecdsa_verify(d.maker_pk, d.btc_sig, d.auth_pub)
           /\ d.cj_addr \in ValidAddresses
           /\ d.change_addr \in ValidAddresses
           /\ \A i \in DOMAIN utxo_data : ~utxo_data[i].none
           /\ \E i \in DOMAIN utxo_data :
                utxo_data[i].script = <<"script_of", d.auth_pub>>
           /\ MakerChangeDue(t, nick, d) < DUST_THRESHOLD}

\* Maker nick, whose data were d, has no part in the transaction tx.
NoPartIn(tx, d) ==
    /\ OutsToAddress(tx, d.cj_addr) = {}
    /\ OutsToAddress(tx, d.change_addr) = {}
    /\ \A i \in DOMAIN tx.ins : tx.ins[i].outpoint \notin Range(d.utxo_list)

\* C15: a maker whose change_amount is below DUST_THRESHOLD is dropped from
\* the transaction receive_utxos builds (none of its outputs and none of its
\* inputs are in it, and it is not among the accepted makers), it is not
\* added to ignored_makers, and the transaction is built whenever at least
\* minimum_makers makers pass all checks.
C15_SubDustMakerDropped ==
    FillCallDone /\ t_ret[1] # "raise" /\ ~t_call.before.aborted =>
      /\ \A nick \in SubDustMakers(t_call.before, t_call.ioauth_data) :
            /\ nick \notin DOMAIN taker.maker_utxo_data
            /\ nick \in taker.ignored_makers =>
                 nick \in t_call.before.ignored_makers
            /\ t_ret[1] = PyTrue =>
                 /\ nick \notin t_ret[2]
                 /\ NoPartIn(t_ret[3], t_call.ioauth_data[nick])
      /\ Cardinality(PassingMakers(t_call.before, t_call.ioauth_data))
           >= minimum_makers => t_ret[1] = PyTrue

\* The makers of ioauth_data whose only failure is the ECDSA check of
\* (maker_pk, btc_sig, auth_pub).
BadSigOnlyMakers(ioauth_data) ==
    {nick \in DOMAIN ioauth_data :
       /\ ~ecdsa_verify(ioauth_data[nick].maker_pk, ioauth_data[nick].btc_sig,
                        ioauth_data[nick].auth_pub)
       /\ ioauth_data[nick].cj_addr \in ValidAddresses
       /\ ioauth_data[nick].change_addr \in ValidAddresses}

\* The makers of ioauth_data one of whose addresses fails validation.
BadAddressMakers(ioauth_data) ==
    {nick \in DOMAIN ioauth_data :
       \/ ioauth_data[nick].cj_addr \notin ValidAddresses
       \/ ioauth_data[nick].change_addr \notin ValidAddresses}

\* Maker nick is not part of the transaction receive_utxos returned, if any.
Excluded(nick) ==
    /\ t_ret[1] # "raise" => nick \notin DOMAIN taker.maker_utxo_data
    /\ t_ret[1] = PyTrue =>
         /\ nick \notin t_ret[2]
         /\ NoPartIn(t_ret[3], t_call.ioauth_data[nick])

\* C16: a call of receive_utxos extends ignored_makers by exactly the nicks
\* whose cj_addr or change_addr fails validation; a maker whose only failure
\* is the ECDSA check is excluded from the transaction and not added to
\* ignored_makers, a maker with an invalid address is excluded and added.
C16_IgnoredAreTheBadAddresses ==
    FillCallDone /\ ~t_call.before.aborted =>
      /\ taker.ignored_makers = t_call.before.ignored_makers
                                  \cup BadAddressMakers(t_call.ioauth_data)
      /\ \A nick \in BadSigOnlyMakers(t_call.ioauth_data) : Excluded(nick)
      /\ \A nick \in BadAddressMakers(t_call.ioauth_data) : Excluded(nick)

\* The call of initialize that has just ended, if any, was not aborted.
InitCallDone ==
    t_pc = "ret" /\ t_call.op = "initialize" /\ ~t_call.before.aborted

\* C17: each non-aborted call of initialize advances schedule_index by
\* exactly one; whenever the advanced index is past the end of the schedule,
\* on the first such call and on every later one, initialize invokes
\* on_finished(True), returns (False,), and changes nothing else of the
\* Taker: it reads no schedule entry and starts no transaction.
C17_ScheduleEndFinishes ==
    InitCallDone =>
      /\ taker.schedule_index = t_call.before.schedule_index + 1
      /\ taker.schedule_index >= Len(taker.schedule) =>
           /\ t_ret = <<PyFalse>>
           /\ "on_finished(True)" \in Range(t_log)
           /\ taker = [t_call.before EXCEPT !.schedule_index = @ + 1]

\* The utxos a commitment can be drawn from: the wallet's, the selected
\* inputs among them, and the external ones.
CommitCandidates == DOMAIN TakerWallet \cup ExternalCommitments

\* The store of used commitments as the call of initialize that has just
\* ended found it.
UsedBefore ==
    IF t_ret[1] = PyTrue
    THEN used_commitments \ {<<t_ret[4].utxo, t_ret[4].index>>}
    ELSE used_commitments

\* The call of initialize that has just ended got as far as make_commitment,
\* and no candidate the chain view of the call lets through had an unused
\* commitment left.
NothingToCommit ==
    /\ InitCallDone
    /\ t_log # <<>>
    /\ t_log[Len(t_log)] \in {"ABORT:errmsg", "INFO:errmsg",
                              "INFO:Commitment sourced OK"}
    /\ \A u \in ValidForCommit(t_call.e.view, CommitCandidates,
                                taker_utxo_age, CommitAmt(taker)) :
          \A i \in 0..(taker_utxo_retries - 1) : <<u, i>> \in UsedBefore

\* C18: when no unused commitment can be generated from the selected
\* inputs, the wallet or the external commitments, initialize writes the
\* debug file and returns ("commitment-failure",) exactly when no candidate
\* was rejected only for too few confirmations, and (False,) when one was;
\* and a success tuple always carries a commitment.
C18_CommitmentFailureOrRetry ==
    /\ NothingToCommit =>
         /\ "commitments_debug.txt" \in Range(t_log)
         /\ t_ret \in {<<"commitment-failure">>, <<PyFalse>>}
         /\ t_ret = <<"commitment-failure">>
              <=> TooNew(t_call.e.view, CommitCandidates, taker_utxo_age) = {}
    /\ InitCallDone /\ t_ret[1] = PyTrue =>
         /\ t_ret[4].utxo \in CommitCandidates
         /\ t_ret[3] = CommitmentOf(<<t_ret[4].utxo, t_ret[4].index>>)

\* Where x first occurs in the list log, 0 when it does not.
RECURSIVE IndexIn(_, _, _)
IndexIn(log, x, i) ==
    IF i > Len(log) THEN 0
    ELSE IF log[i] = x THEN i
    ELSE IndexIn(log, x, i + 1)

\* The call of on_sig that has just ended got to push.
PushDone == SigCallDone /\ "sign_tx" \in Range(t_log)

\* C19: in every push the notify callbacks are registered, and whenever push
\* hands the transaction to pushtx it has registered them before, under
\* every setting of tx_broadcast.
C19_NotifyBeforeBroadcast ==
    PushDone =>
      /\ IndexIn(t_log, "add_tx_notify", 1) > 0
      /\ "pushtx" \in Range(t_log) =>
           IndexIn(t_log, "add_tx_notify", 1) < IndexIn(t_log, "pushtx", 1)

\* A push that broadcast the transaction itself under a setting other
\* than self.
C19_Witness ==
    /\ PushDone
    /\ "pushtx" \in Range(t_log)
    /\ t_call.e.tx_broadcast # "self"

\* The notify callback that has just ended, if any.
UnconfirmDone == t_pc = "ret" /\ t_call.op = "unconfirm_callback"
ConfirmDone == t_pc = "ret" /\ t_call.op = "confirm_callback"

-----------------------------------------------------------------------------
(*                     FURTHER CLAIMS ABOUT THE MAKER                       *)

\* The call of modify_orders that has just ended, if any.
OrdersCallDone == m_pc = "ret" /\ m_call.op = "modify_orders"

\* The offers left when the oids of to_cancel that are in the list are
\* cancelled and the others are passed over.
RECURSIVE CancelKnown(_, _)
CancelKnown(offers, to_cancel) ==
    IF to_cancel = <<>> THEN offers
    ELSE IF OffersWithOid(offers, Head(to_cancel)) = <<>>
    THEN CancelKnown(offers, Tail(to_cancel))
    ELSE CancelKnown(Remove(offers, OffersWithOid(offers, Head(to_cancel))[1]),
                     Tail(to_cancel))

\* C21: modify_orders tolerates cancelling an oid that is not in offerlist:
\* it completes without error, and the offerlist afterwards is the one
\* before with the remaining cancellations and all announcements applied.
C21_CancelUnknownTolerated ==
    OrdersCallDone =>
      /\ m_ret[1] # "raise"
      /\ offerlist.offers =
           ReplaceOrders(CancelKnown(m_call.before, m_call.to_cancel),
                         m_call.to_announce)
           \o m_call.to_announce


\* The step in which the hook create_my_orders answers.
HookAnswers ==
    /\ offerlist' # offerlist
    /\ m_call'.op = "try_to_create_my_orders"

\* What holds of the step in which the hook answers.
FirstSyncedPoll ==
    /\ wallet_synced
    /\ sync_wait_loop /\ ~sync_wait_loop'
    /\ offerlist.isNone
    /\ offerlist' = [isNone |-> FALSE, offers |-> m_call'.created]
    /\ m_pc' = IF m_call'.created = <<>> THEN "exited" ELSE "idle"

\* The offers are there exactly when the polling has stopped, and never
\* before the wallet is synced.
OffersOnceSynced ==
    /\ offerlist.isNone <=> sync_wait_loop
    /\ ~wallet_synced => offerlist.isNone
    /\ m_pc = "exited" => ~offerlist.isNone /\ offerlist.offers = <<>>

\* C22: create_my_orders is never invoked while the wallet is not synced and
\* is invoked once, at the first poll that sees the wallet synced, after
\* which the polling stops; offerlist is None before that and is the hook's
\* result after it; an empty result ends the Maker; and once the wallet is
\* synced the Maker comes to be ready or to exit.
C22_OffersCreatedOnceSynced ==
    /\ []OffersOnceSynced
    /\ [][HookAnswers => FirstSyncedPoll]_vars
    /\ (wallet_synced /\ offerlist.isNone) ~> (MakerReady \/ m_pc = "exited")

C22_Witness ==
    /\ MakerReady
    /\ wallet_synced
    /\ m_call.op = "try_to_create_my_orders"
    /\ offerlist.offers = m_call.created
    /\ ~sync_wait_loop


\* The transaction of the call spends every utxo of the offer-info, pays
\* cjaddr in exactly one output, of value amount, and pays changeaddr in
\* exactly one output, of the change due.
PaysMakerOnce ==
    /\ DOMAIN m_call.offerinfo.utxos \subseteq Range(m_call.txhex.ins)
    /\ Cardinality(OutsTo(m_call.txhex,
                          address_to_script(m_call.offerinfo.cjaddr))) = 1
    /\ \A i \in OutsTo(m_call.txhex, address_to_script(m_call.offerinfo.cjaddr)) :
         m_call.txhex.outs[i].value = m_call.offerinfo.amount
    /\ Cardinality(OutsTo(m_call.txhex,
                          address_to_script(m_call.offerinfo.changeaddr))) = 1
    /\ \A i \in OutsTo(m_call.txhex, address_to_script(m_call.offerinfo.changeaddr)) :
         m_call.txhex.outs[i].value = ChangeDue(m_call.offerinfo)

\* The transaction of the call has an input and an output that are not the
\* Maker's.
HasStrangers ==
    /\ Range(m_call.txhex.ins) \ DOMAIN m_call.offerinfo.utxos # {}
    /\ \E i \in DOMAIN m_call.txhex.outs :
         m_call.txhex.outs[i].script
           \notin {address_to_script(m_call.offerinfo.cjaddr),
                   address_to_script(m_call.offerinfo.changeaddr)}

\* A call of the Maker that verifies a transaction leaves the Maker as it
\* was.
VerifyKeepsState ==
    (m_pc = "idle" /\ m_pc' = "ret" /\ m_call'.op = "on_tx_received")
      => UNCHANGED <<offerlist, active_orders, m_aborted, wallet_synced,
                     sync_wait_loop>>

\* C24: verify_unsigned_tx accepts every transaction that spends all of the
\* Maker's utxos and has exactly one cj output, of value amount, and
\* exactly one change output, of the expected change value, whatever other
\* inputs and outputs it has; and it changes nothing of the Maker.
C24_AcceptsWhateverElseIsThere ==
    /\ []((TxCallParsed /\ PaysMakerOnce) => m_ret[1] = PyTrue)
    /\ [][VerifyKeepsState]_vars

C24_Witness ==
    /\ TxCallParsed
    /\ PaysMakerOnce
    /\ HasStrangers
    /\ m_ret[1] = PyTrue

\* The inputs of the call's transaction that spend a utxo of the offer-info.
InputsOfOffer ==
    {i \in DOMAIN m_call.txhex.ins :
       m_call.txhex.ins[i] \in DOMAIN m_call.offerinfo.utxos}

\* C25: on success on_tx_received has the wallet sign exactly the inputs
\* whose outpoint is a utxo of offerinfo, and returns exactly one signature
\* message for each of them, so at least one for each utxo of offerinfo.
C25_SignsExactlyOwnInputs ==
    TxAccepted =>
      /\ m_log = <<"sign_tx">>
      /\ m_signed = InputsOfOffer
      /\ Len(m_ret[2]) = Cardinality(InputsOfOffer)
      /\ \A i \in InputsOfOffer :
           Cardinality({k \in DOMAIN m_ret[2] : m_ret[2][k].index = i}) = 1
      /\ \A u \in DOMAIN m_call.offerinfo.utxos :
           \E k \in DOMAIN m_ret[2] : m_ret[2][k].utxo = u

\* A utxo of the offer spent by both inputs of the transaction.
C25_Witness ==
    /\ TxAccepted
    /\ Cardinality(InputsOfOffer) = 2
    /\ Len(m_ret[2]) = 2
    /\ m_call.txhex.ins[1] = m_call.txhex.ins[2]

\* The checks of the call on the Taker's authorisation, one by one.
RevelationParses == m_call.cr.kind = "rev"
PodleProves ==
    /\ m_call.commitment = PodleCommit(PodleP2(m_call.cr.P, m_call.cr.index))
    /\ m_call.cr.proof
    /\ m_call.cr.index \in 0..(taker_utxo_retries - 1)
UtxoExists == ~m_call.res.none
UtxoOldEnough == m_call.res.confirms >= taker_utxo_age
UtxoLargeEnough ==
    m_call.res.value >= (m_call.amount * taker_utxo_amtpercent) \div 100
PubkeyMatches == m_call.res.script = <<"script_of", m_call.cr.P>>

EveryCheckPassed ==
    /\ RevelationParses
    /\ PodleProves
    /\ UtxoExists
    /\ UtxoOldEnough
    /\ UtxoLargeEnough
    /\ PubkeyMatches

\* C26: in on_auth_received the hooks oid_to_order and
\* wallet.update_cache_index are invoked only once every check on the
\* Taker's authorisation has passed (revelation parse, PoDLE proof, utxo
\* existence, age, value, pubkey-script match); a request that fails one of
\* them has no utxos selected and is told no utxos and no addresses.
C26_NoSelectionBeforeAuthorisation ==
    AuthCallDone =>
      /\ (\E i \in DOMAIN m_log :
            m_log[i] \in {"oid_to_order", "update_cache_index"})
           => EveryCheckPassed
      /\ ~EveryCheckPassed => (m_ret = <<PyFalse>> /\ m_log = <<>>)

\* Only the last check fails, on a request oid_to_order had utxos for.
C26_Witness ==
    /\ AuthCallDone
    /\ RevelationParses /\ PodleProves /\ UtxoExists
    /\ UtxoOldEnough /\ UtxoLargeEnough
    /\ ~PubkeyMatches
    /\ DOMAIN m_call.order.utxos # {}
    /\ m_ret = <<PyFalse>>
    /\ m_log = <<>>

\* ---------------------------------------------------------------------
\* FURTHER CLAIMS ABOUT THE TAKER
\* ---------------------------------------------------------------------

\* A call of initialize has just read a schedule entry with a fractional
\* amount.
FloatEntryRead ==
    /\ InitCallDone
    /\ taker.schedule_index < Len(taker.schedule)
    /\ taker.schedule[taker.schedule_index + 1].cjamount.float

\* The entry just read opens a mixdepth: it is the first of the schedule or
\* its mixdepth is not that of the entry before it.
NewMixdepth ==
    \/ taker.schedule_index = 0
    \/ taker.schedule[taker.schedule_index + 1].mixdepth
          # taker.schedule[taker.schedule_index].mixdepth

\* C23: for a schedule entry with a fractional cjamount the balance used
\* is the one captured at entry to the mixdepth: captured anew at schedule
\* index 0 or when the mixdepth differs from the previous entry's, reused
\* otherwise; cjamount is int(fraction * balance), raised to mincjamount
\* when lower.
C23_BalanceFixedPerMixdepth ==
    FloatEntryRead =>
      /\ taker.mixdepthbal = IF NewMixdepth THEN t_call.e.bal
                             ELSE t_call.before.mixdepthbal
      /\ taker.cjamount =
           EntryAmount(taker.schedule[taker.schedule_index + 1],
                       taker.mixdepthbal)


\* The call of on_sig that has just ended left the transaction, the utxos
\* awaited and the makers awaited as they were.
SigCallKeeps ==
    /\ taker.latest_tx = t_call.before.latest_tx
    /\ taker.utxos = t_call.before.utxos
    /\ taker.nonrespondants = t_call.before.nonrespondants

\* C27: on_sig called with a nick that is not in nonrespondants (never
\* selected, rejected in receive_utxos, or done sending signatures) ignores
\* the message: latest_tx, utxos and nonrespondants stay as they were and
\* nothing is signed or broadcast.
C27_UnawaitedNickIgnored ==
    (SigCallDone /\ t_call.nick \notin t_call.before.nonrespondants) =>
      /\ SigCallKeeps
      /\ t_log = <<>>
      /\ t_ret \in {Bare(PyNone), Bare(PyFalse)}

\* A maker that has sent its signature sends a good one for an input that
\* is still unsigned.
C27_Witness ==
    /\ SigCallDone
    /\ ~t_call.before.aborted
    /\ t_call.nick \in DOMAIN t_call.before.utxos
    /\ t_call.nick \notin t_call.before.nonrespondants
    /\ t_call.sig.items = 3
    /\ \E i \in DOMAIN t_call.before.latest_tx.ins :
         /\ t_call.before.latest_tx.ins[i].outpoint = t_call.sig.signs
         /\ t_call.before.latest_tx.ins[i].script = ""
         /\ t_call.before.latest_tx.ins[i].txinwitness = PyNone
    /\ t_ret = Bare(PyNone)


\* The sigmessage of the call is not one of two or three items, or has an
\* integer or an empty item.
JunkSigMessage == t_call.sig.items \notin {2, 3}

\* C28: on_sig given a signature script that is not of exactly 2 or 3
\* items, or that has an integer or an empty item, inserts no signature:
\* the call leaves latest_tx, utxos[nick] and nonrespondants as they were.
C28_JunkSigInsertsNothing ==
    (SigCallDone /\ JunkSigMessage) => SigCallKeeps

\* An awaited maker sends, with an item too many, the signature that its
\* unsigned input waits for.
C28_Witness ==
    /\ SigCallDone
    /\ ~t_call.before.aborted
    /\ t_call.nick \in t_call.before.nonrespondants
    /\ t_call.sig = PaddedSig
    /\ \E i \in DOMAIN t_call.before.latest_tx.ins :
         /\ t_call.before.latest_tx.ins[i].outpoint = t_call.sig.signs
         /\ t_call.before.latest_tx.ins[i].script = ""
    /\ t_ret = Bare(PyFalse)


\* A call of on_sig that has just ended found a transaction under way.
SigCallOnTx == SigCallDone /\ t_call.before.latest_tx # NoTx

\* Input i of the transaction the call found is one of the Taker's own.
TakerOwned(i) ==
    t_call.before.latest_tx.ins[i].outpoint \in DOMAIN t_call.before.input_utxos

\* Input i of the transaction the call found carried a signature already:
\* a scriptSig or a witness.
CarriedSig(i) ==
    \/ t_call.before.latest_tx.ins[i].script # ""
    \/ t_call.before.latest_tx.ins[i].txinwitness # PyNone

\* The sigmessage of the call verifies for input i.
VerifiesFor(i) ==
    /\ t_call.sig.items \in {2, 3}
    /\ ~query_utxo_set(<<t_call.before.latest_tx.ins[i].outpoint>>)[1].none
    /\ sig_good(t_call.sig, t_call.before.latest_tx.ins[i].outpoint)

\* The makers' inputs the call has changed.
InputsChanged ==
    {i \in DOMAIN t_call.before.latest_tx.ins :
       /\ ~TakerOwned(i)
       /\ taker.latest_tx.ins[i] # t_call.before.latest_tx.ins[i]}

\* The call put its signature nowhere but in the first input that had none
\* and that it verifies for.
InsertedAtFirstMatch ==
    /\ Cardinality(InputsChanged) <= 1
    /\ \A i \in InputsChanged :
         /\ ~CarriedSig(i)
         /\ VerifiesFor(i)
         /\ \A j \in 1..(i - 1) : CarriedSig(j) \/ ~VerifiesFor(j)

\* The call put no maker's signature into an input of the Taker.
PlaceholdersKept ==
    \A i \in DOMAIN t_call.before.latest_tx.ins :
      TakerOwned(i) =>
        /\ taker.latest_tx.ins[i].txinwitness
             = t_call.before.latest_tx.ins[i].txinwitness
        /\ taker.latest_tx.ins[i].script \in {"deadbeef", "signed"}

\* The makers the call took off nonrespondants have no utxo left to sign.
RemovedHaveSentAll ==
    \A nick \in t_call.before.nonrespondants \ taker.nonrespondants :
      taker.utxos[nick] = <<>>

\* C29: each call of on_sig inserts at most one signature, into the first
\* not-yet-signed input it verifies for; it never modifies an input that
\* carries a signature already, of any type, native segwit included, nor
\* an input of the Taker with its placeholder; and it takes a nick off
\* nonrespondants only when utxos[nick] has become empty.
C29_OneSignaturePerCall ==
    SigCallOnTx =>
      /\ DOMAIN taker.latest_tx.ins = DOMAIN t_call.before.latest_tx.ins
      /\ InsertedAtFirstMatch
      /\ PlaceholdersKept
      /\ RemovedHaveSentAll


\* The call of receive_utxos that has just ended, of a non-sweep entry, had
\* makers enough and went on to work out the Taker's fee and change.
ChangeWorkedOut ==
    /\ FillWithChange
    /\ "INFO:Got all parts, enough to build a tx" \in Range(t_log)

\* What the makers accepted in the call charge, and what they contribute
\* to the transaction fee.
CjFeeOfAccepted ==
    SumFun([nick \in DOMAIN taker.maker_utxo_data |-> RealCjFee(taker, nick)])
TxFeeOfAccepted ==
    SumFun([nick \in DOMAIN taker.maker_utxo_data |->
              taker.orderbook[nick].txfee])

\* The Taker's share of the fee and its change, as the claim C30 has them.
FeeShare == Max(taker.total_txfee - TxFeeOfAccepted, 0)
ChangeOfTaker ==
    SumFun([u \in DOMAIN taker.input_utxos |-> taker.input_utxos[u].value])
    - taker.cjamount - CjFeeOfAccepted - FeeShare

\* C30: in receive_utxos the Taker's fee share is max(total_txfee - sum of
\* the accepted makers' txfee, 0) and the Taker's change is total_taker_in
\* - cjamount - sum of real_cj_fee over the accepted makers - fee share;
\* makers rejected in the call count in neither sum.
C30_TakerChangeFromAcceptedMakers ==
    ChangeWorkedOut =>
      /\ taker.cjfee_total = CjFeeOfAccepted
      /\ taker.maker_txfee_contributions = TxFeeOfAccepted
      /\ MyChangeValue(taker) = ChangeOfTaker
      /\ t_ret[1] = PyTrue =>
           \A i \in OutsToAddress(t_ret[3], t_call.before.my_change_addr) :
             t_ret[3].outs[i].value = ChangeOfTaker


\* push has handed the transaction to a maker: it returned (nick, tx) for
\* one of the makers accepted.
HandedToPeer ==
    /\ t_ret[1] \notin {"bare", "raise"}
    /\ Len(t_ret) = 2
    /\ t_ret[1] \in DOMAIN taker.maker_utxo_data
    /\ t_ret[2] = taker.latest_tx

\* C31: push follows the policy tx_broadcast: under 'self', or a value it
\* does not know, the Taker calls pushtx itself; under 'not-self' it never
\* does and returns (nick, tx) for one of the accepted makers; under
\* 'random-peer' it does the one or the other; and when its own pushtx
\* fails it invokes on_finished(False, fromtx=True).
C31_BroadcastPolicy ==
    PushDone =>
      /\ t_call.e.tx_broadcast \in {"self", "unsupported"} =>
           "pushtx" \in Range(t_log)
      /\ t_call.e.tx_broadcast = "not-self" =>
           ("pushtx" \notin Range(t_log) /\ HandedToPeer)
      /\ t_call.e.tx_broadcast = "random-peer" =>
           ("pushtx" \in Range(t_log)) # HandedToPeer
      /\ ("pushtx" \in Range(t_log) /\ ~t_call.e.pushed) =>
           "on_finished(False, fromtx=True)" \in Range(t_log)


\* C32: after every successful initialize the state of the transaction is
\* fresh: nonrespondants is the set of counterparties of the orderbook
\* returned, outputs is empty, cjfee_total and maker_txfee_contributions
\* are 0, latest_tx and txid are unset and utxos holds the Taker's own
\* selected inputs and nothing else, whatever an earlier schedule entry or
\* attempt left behind.
C32_FreshStateAfterInitialize ==
    InitializeSucceeded =>
      /\ taker.nonrespondants = DOMAIN t_ret[5]
      /\ taker.outputs = <<>>
      /\ taker.cjfee_total = 0
      /\ taker.maker_txfee_contributions = 0
      /\ taker.latest_tx = NoTx
      /\ taker.txid = PyNone
      /\ DOMAIN taker.utxos = {PyNone}
      /\ Range(taker.utxos[PyNone]) = DOMAIN taker.input_utxos

\* initialize succeeds on a Taker that had built a transaction with the
\* makers of an earlier attempt.
C32_Witness ==
    /\ InitializeSucceeded
    /\ t_call.before.latest_tx # NoTx
    /\ t_call.before.outputs # <<>>
    /\ t_call.before.cjfee_total > 0
    /\ DOMAIN t_call.before.utxos # {PyNone}


\* The call of set_honest_only that has just ended, if any.
HonestOnlyCallDone == t_pc = "ret" /\ t_call.op = "set_honest_only"

\* The entry the successful call of initialize read is a sweep.
SweepEntry == taker.schedule[taker.schedule_index + 1].cjamount.v = 0

\* C33: honest_only is true only where honest_makers is not empty
\* (set_honest_only(True) without honest makers is ignored), and while it
\* is true every counterparty of the orderbook initialize selects, on the
\* normal and on the sweep path, is one of honest_makers.
C33_HonestyFilter ==
    /\ taker.honest_only => taker.honest_makers # {}
    /\ (HonestOnlyCallDone /\ t_call.arg /\ t_call.before.honest_makers = {})
         => taker = t_call.before
    /\ (InitializeSucceeded /\ taker.honest_only)
         => /\ DOMAIN t_ret[5] \subseteq taker.honest_makers
            /\ DOMAIN taker.orderbook \subseteq taker.honest_makers

\* A sweep among the honest makers, with a maker in the pit that is not
\* one of them.
C33_Witness ==
    /\ InitializeSucceeded
    /\ taker.honest_only
    /\ SweepEntry
    /\ t_call.orderbook \ taker.honest_makers # {}


\* No step of the Taker takes a maker out of ignored_makers.
IgnoredStay == [][taker.ignored_makers \subseteq taker'.ignored_makers]_vars

\* The makers ignored when the call of initialize began are not in the
\* orderbook it returns.
IgnoredNotSelected ==
    InitializeSucceeded
      => /\ DOMAIN t_ret[5] \cap t_call.before.ignored_makers = {}
         /\ DOMAIN t_ret[5] \cap taker.ignored_makers = {}

\* C34: a maker added to ignored_makers stays in it for the rest of the
\* Taker run, over any sequence of initialize, receive_utxos, on_sig and
\* add_ignored_makers (the field is the set that list(set(...)) leaves, so it
\* holds no maker twice), and no later successful initialize returns an
\* orderbook that contains an ignored maker.
C34_IgnoredMakersStay == IgnoredStay /\ []IgnoredNotSelected

\* initialize succeeds on the normal path, for the second entry of the
\* schedule or a later one, while J1, which is in the pit, is ignored.
C34_Witness ==
    /\ InitializeSucceeded
    /\ ~SweepEntry
    /\ t_call.orderbook \cap taker.ignored_makers # {}
    /\ "J1" \in taker.ignored_makers
    /\ taker.schedule_index >= 1


\* The outpoints the Taker selected for itself in initialize.
OwnInputs(t) == DOMAIN t.input_utxos

\* The outpoints sent by the makers receive_utxos has accepted in this call.
AcceptedInputs ==
    UNION {Range(t_call.ioauth_data[k].utxo_list) : k \in t_ret[2]}

\* C35: every input of the unsigned transaction receive_utxos builds is one
\* of the Taker's own selected inputs or a utxo of a maker accepted in this
\* call, and utxos holds no entry for a nick that was not accepted.
C35_InputsOnlyFromAccepted ==
    FillSucceeded =>
      /\ \A i \in DOMAIN t_ret[3].ins :
            t_ret[3].ins[i].outpoint
              \in OwnInputs(t_call.before) \cup AcceptedInputs
      /\ DOMAIN taker.utxos \ {PyNone} \subseteq t_ret[2]


\* The transaction of the Taker as the Maker deserializes it from !tx.
TxAsSent(tx) == Tx([i \in DOMAIN tx.ins |-> tx.ins[i].outpoint], tx.outs)

\* The offer-info maker nick holds for the coinjoin of Taker t after it sent
\* the !ioauth data d: the utxos it sent with the values the chain reports,
\* its two addresses, the amount of the !fill and the offer the Taker chose.
OfferInfoOf(t, nick, d) ==
    [utxos |-> [u \in Range(d.utxo_list) |-> [value |-> MakerChain[u].value]],
     cjaddr |-> d.cj_addr,
     changeaddr |-> d.change_addr,
     amount |-> t.cjamount,
     offer |-> t.orderbook[nick]]

\* The addresses of the accepted makers and of the Taker differ pairwise.
AddressesOf(t, makers, ioauth_data) ==
    <<t.my_cj_addr, t.my_change_addr>>
      \o AllUtxos([k \in makers |-> <<ioauth_data[k].cj_addr,
                                       ioauth_data[k].change_addr>>], NickOrder)
PairwiseDistinct(list) ==
    \A i, j \in DOMAIN list : i # j => list[i] # list[j]

\* C36: with pairwise distinct addresses and the chain reporting the values
\* the makers hold, the unsigned transaction of a successful receive_utxos is
\* accepted by verify_unsigned_tx of every accepted maker, and the change the
\* Taker computes for a maker is the change that maker expects.
C36_MakersAcceptTakersTx ==
    (FillSucceeded
       /\ PairwiseDistinct(AddressesOf(t_call.before, t_ret[2],
                                       t_call.ioauth_data)))
      => \A k \in t_ret[2] :
           LET o == OfferInfoOf(t_call.before, k, t_call.ioauth_data[k])
           IN  /\ verify_unsigned_tx(TxAsSent(t_ret[3]), o)[1] = PyTrue
               /\ ChangeAmount(t_call.before, k,
                               query_utxo_set(t_call.ioauth_data[k].utxo_list))
                     = ExpectedChange(o)


\* The index at which the call that has just ended read the schedule, for a
\* call of initialize that got past the test for the end of the schedule and
\* for a call of confirm_callback; -1, which reads the last entry, otherwise.
EntryReadAt ==
    IF InitCallDone /\ "INFO:Finished all scheduled transactions" \notin Range(t_log)
    THEN taker.schedule_index
    ELSE IF t_pc = "ret" /\ t_call.op = "confirm_callback" /\ ~t_call.before.aborted
    THEN t_call.before.schedule_index
    ELSE -1

\* C37: in every reachable state schedule_index <= len(schedule), after any
\* number of calls of initialize, and neither initialize nor confirm_callback
\* reads a schedule entry at an index outside the schedule.
C37_ScheduleIndexInRange ==
    /\ taker.schedule_index <= Len(taker.schedule)
    /\ EntryReadAt < Len(taker.schedule)


\* self_sign has run on the transaction Taker t holds: the Taker's own
\* inputs carry its signatures, no longer the placeholder receive_utxos set.
SelfSigned(t) ==
    \E i \in DOMAIN t.latest_tx.ins : t.latest_tx.ins[i].script = "signed"

\* C38: for each successful receive_utxos, self_sign_and_push runs at most
\* once, whatever !sig messages come afterwards, replays included: a call of
\* on_sig gets to self_sign_and_push only on a transaction that has not been
\* through it.
C38_PushAtMostOnce ==
    [][(t_pc = "idle" /\ t_call'.op = "on_sig" /\ "sign_tx" \in Range(t_log'))
         => ~SelfSigned(taker)]_vars

\* After the push, the good signature of an accepted maker comes again.
C38_Witness ==
    /\ SigCallDone
    /\ SelfSigned(t_call.before)
    /\ t_call.nick \in DOMAIN taker.maker_utxo_data
    /\ t_call.sig.items = 3
    /\ t_call.sig.signs = MakerOutpoints[t_call.nick].big

=============================================================================
